---- MODULE Spec2Model ----
(***************************************************************************)
(* Model of the kraken-auto-trade-bot liquidation pipeline:                *)
(*   src/src/services/autoSellService.js   (AutoSellService)               *)
(*   src/src/services/websocketService.js  (WebSocketService)              *)
(*   src/unnamed/part_006                  (KrakenService)                 *)
(*   src/unnamed/part_005                  (utils/helpers)                 *)
(*   src/unnamed/part_003                  (config)                        *)
(*   src/src/startup.js                    (startServices)                 *)
(*   src/src/controllers/tradeController.js, src/src/utils/validation.js   *)
(*   src/src/routes/index.js               (the status surface)            *)
(*                                                                         *)
(* Node runs one callback at a time.  Every async call chain is a record   *)
(* in the bag `procs`; it takes one atomic step from one network reply or  *)
(* timer to the next.  Amounts are integers, one unit being 0.001 of the   *)
(* asset.                                                                  *)
(***************************************************************************)
EXTENDS Integers, Sequences, FiniteSets, Bags, TLC

\* ------------------------------------------------------------------ bounds
MaxAmt == 2         \* largest amount the exchange reports, in units
MaxProcs == 2       \* async call chains suspended at the same time
MaxTimers == 1      \* order-status timers / follow-up timers armed at once
MaxRetrying == 1    \* call chains resending an order at the same time
MaxNow == 3         \* clock ticks in one run
MaxRequests == 5    \* signed requests in one run
MaxCalls == 17      \* calls of waitForSlot in one run
MaxWaiters == 2     \* calls of waitForSlot waiting at the same time
MaxEvents == 2      \* balance changes and feed snapshots in one run
MaxRestCalls == 2   \* REST operations in progress at the same time
MaxSlots == 4       \* waitForSlot calls made by REST operations in one run
MaxTxids == 2       \* txids in the body of one batch request
MaxSockets == 11    \* feed connections created in one run
MaxFailed == 11     \* failed reconnection attempts counted in a row
MaxSilence == 40000 \* longest heartbeat silence told apart, in ms
MaxResubscribe == 1 \* resubscribe timers armed at the same time
MaxBatch == 21      \* longest txids list of a batch lookup request
MaxAttempts == 4     \* largest maxAttempts withRetry is called with
MaxLookupFailures == 2  \* lookups of one batch request that find no order or throw
MaxRemaining == 2   \* assets the loop over the balances has still to process

\* ------------------------------------------------------- program constants
maxRetries == 3     \* autoSellService.js:232
maxBatchTxids == 20 \* validateTxidArray, validation.js:54
retryAttempts == 3  \* config.kraken.retryAttempts
retryDelay == 1000  \* config.kraken.retryDelay, ms
maxRequests == 15   \* config.kraken.rateLimit.maxRequests
period == 1000      \* config.kraken.rateLimit.period, ms
maxArraySize == 1000     \* RateLimiter.maxArraySize
cleanupInterval == 60000  \* RateLimiter.cleanupInterval, ms
reconnectDelay == 5000          \* config.websocket.reconnectDelay
heartbeatTimeout == 30000       \* config.websocket.heartbeatTimeout
maxReconnectAttempts == 10      \* config.websocket.maxReconnectAttempts
baseReconnectDelay == 5000      \* config.websocket.baseReconnectDelay
pingInterval == 30000           \* config.websocket.pingInterval
heartbeatCheckPeriod == 10000   \* setInterval(..., 10000) of the watchdog
resubscribeDelay == 5000        \* setTimeout(..., 5000) of handleErrorMessage
maxDelay == 60000               \* cap of the reconnect backoff

Amounts == 0..MaxAmt

\* The assets the account holds, by standard name: the target fiat and one
\* crypto asset.  The REST API names them by native code (ZUSD, XETH), the
\* v2 balances channel by standard name.
Assets == {"USD", "ETH"}

UpdateTypes == {"deposit", "withdrawal", "trade", "adjustment", "transfer"}

\* ------------------------------------------------------------ utils/helpers
convertAssetName(asset) ==
  CASE asset = "XETH"  -> "ETH"
    [] asset = "XXBT"  -> "BTC"
    [] asset = "XXDG"  -> "DOGE"
    [] asset = "ZUSD"  -> "USD"
    [] asset = "ZUSDT" -> "USDT"
    [] asset = "ZUSDC" -> "USDC"
    [] OTHER -> asset

\* Outcomes of one request on the wire, as the error the client library
\* raises: "ok"; ECONNRESET / ETIMEDOUT raised after the request was written
\* (the exchange may or may not have executed it); ECONNREFUSED (never
\* sent); a business rejection such as EOrder:Insufficient funds.
Outcomes == {"ok", "ECONNRESET", "ETIMEDOUT", "ECONNREFUSED", "rejected"}
Ambiguous == {"ECONNRESET", "ETIMEDOUT"}

\* Faulty variant: every error is taken for retryable.
isRetryableErrorAny(error) == TRUE

isRetryableError(error) ==
  error \in {"ECONNRESET", "ETIMEDOUT", "ECONNREFUSED", "HTTP5xx", "Invalid nonce"}

\* ------------------------------------------------------------ KrakenService
getOriginalAssetName(asset) ==
  CASE asset = "ETH"  -> "XETH"
    [] asset = "BTC"  -> "XXBT"
    [] asset = "DOGE" -> "XXDG"
    [] asset = "USD"  -> "ZUSD"
    [] asset = "USDT" -> "USDT"
    [] asset = "USDC" -> "USDC"
    [] asset = "EUR"  -> "ZEUR"
    [] asset = "GBP"  -> "ZGBP"
    [] asset = "CAD"  -> "ZCAD"
    [] asset = "AUD"  -> "ZAUD"
    [] asset = "JPY"  -> "ZJPY"
    [] asset = "CHF"  -> "CHF"
    [] asset = "XRP"  -> "XXRP"
    [] asset = "XLM"  -> "XXLM"
    [] asset = "XMR"  -> "XXMR"
    [] asset = "LTC"  -> "XLTC"
    [] asset = "ETC"  -> "XETC"
    [] asset = "REP"  -> "XREP"
    [] asset = "MLN"  -> "XMLN"
    [] asset = "ZEC"  -> "XZEC"
    [] OTHER -> asset

getStandardAssetName(krakenAsset) ==
  CASE krakenAsset = "XXDG" -> "DOGE"
    [] krakenAsset = "XXBT" -> "BTC"
    [] krakenAsset = "XETH" -> "ETH"
    [] krakenAsset = "ZUSD" -> "USD"
    [] krakenAsset = "ZEUR" -> "EUR"
    [] krakenAsset = "ZGBP" -> "GBP"
    [] krakenAsset = "ZCAD" -> "CAD"
    [] krakenAsset = "ZAUD" -> "AUD"
    [] krakenAsset = "ZJPY" -> "JPY"
    [] krakenAsset = "XXRP" -> "XRP"
    [] krakenAsset = "XXLM" -> "XLM"
    [] krakenAsset = "XXMR" -> "XMR"
    [] krakenAsset = "XLTC" -> "LTC"
    [] krakenAsset = "XETC" -> "ETC"
    [] krakenAsset = "XREP" -> "REP"
    [] krakenAsset = "XMLN" -> "MLN"
    [] krakenAsset = "XZEC" -> "ZEC"
    [] OTHER -> krakenAsset

\* ------------------------------------------------------------------- state
VARIABLES
  targetFiat,                 \* config.kraken.targetFiat
  pairs,                      \* KrakenService.pairs: pair name -> pair info
  minimumOrderSizes,          \* KrakenService.minimumOrderSizes
  currentBalances,            \* AutoSellService.currentBalances
  initialProcessingComplete,  \* AutoSellService.initialProcessingComplete
  isProcessingSnapshot,       \* AutoSellService.isProcessingSnapshot
  phase,                      \* position of startServices
  procs,                      \* bag of suspended async call chains
  monitors,                   \* bag of armed 5 s order-status timers
  followups,                  \* bag of armed 2 s partial-fill timers
  acct,                       \* the exchange: balance of every asset
  events,                     \* balance changes and snapshots so far
  lastEv,                     \* the feed message delivered last (history)
  now,                        \* Date.now(), in clock ticks
  nonces,                     \* nonces of the signed requests sent, in order
  requests,                   \* RateLimiter.requests
  lastCleanup,                \* RateLimiter.lastCleanup
  waiters,                    \* bag of waitForSlot calls suspended in their timer
  admitted,                   \* times at which waitForSlot returned (history)
  calls,                      \* bag of REST operations in progress
  lastSent,                   \* the request last handed to the client library
  sockets,                    \* readyState of every WebSocket created, in order
  wsInstance,                 \* WebSocketService.wsInstance: index in sockets, 0 = null
  isReconnecting,             \* WebSocketService.isReconnecting
  reconnectAttempts,          \* WebSocketService.reconnectAttempts
  timeSinceLastHeartbeat,     \* Date.now() - lastHeartbeatTime, up to MaxSilence
  timers,                     \* bag of armed feed timers and intervals
  tasks,                      \* bag of feed call chains awaiting a REST answer
  failed,                     \* reconnection attempts failed in a row (history)
  lastTick,                   \* what the last watchdog tick found and did (history)
  running,                    \* the process has not exited
  applied                     \* the function applied last, its arguments and its value

\* The liquidation engine and the exchange account it works on.
engine == <<targetFiat, pairs, minimumOrderSizes, currentBalances,
            initialProcessingComplete, isProcessingSnapshot, phase, procs,
            monitors, followups, acct, events, lastEv>>

\* The clock and the components modelled apart from the engine.
limiter == <<requests, lastCleanup, waiters, admitted>>

restApi == <<calls, lastSent>>

feed == <<sockets, wsInstance, isReconnecting, reconnectAttempts,
          timeSinceLastHeartbeat, timers, tasks, failed, lastTick, running>>

\* What the specifications of single functions and handlers record.
aux == <<applied>>

other == <<now, nonces, limiter, restApi, feed, aux>>

vars == <<engine, other>>

\* Pair catalogs AssetPairs can return.  ordermin = 0 stands for a pair
\* whose ordermin field is absent.
NoPairs == [n \in {} |-> 0]
Catalogs ==
  { NoPairs,
    [n \in {"XETHZUSD"} |-> [base |-> "XETH", quote |-> "ZUSD", ordermin |-> 2]],
    [n \in {"XETHZUSD"} |-> [base |-> "XETH", quote |-> "ZUSD", ordermin |-> 0]] }

\* fetchTradablePairs: the minimum order size of every pair quoted in the
\* target fiat, stored under the standard and the native name of its base.
StoredMinimums(prs, fiat) ==
  LET ok == {n \in DOMAIN prs : /\ prs[n].quote = getOriginalAssetName(fiat)
                                /\ prs[n].ordermin # 0}
      names == UNION {{getStandardAssetName(prs[n].base), prs[n].base} : n \in ok}
  IN [a \in names |->
        LET n == CHOOSE m \in ok : a \in {getStandardAssetName(prs[m].base), prs[m].base}
        IN prs[n].ordermin]

\* Fallback table of getMinimumOrderSize in units of 0.001 ('BTC': 0.0001
\* is a tenth of a unit and has no entry here; BTC is not in Assets).
assetSpecificMinimums(asset) ==
  CASE asset = "ETH"  -> 1
    [] asset = "DOGE" -> 1000
    [] asset = "SOL"  -> 10
    [] asset = "XRP"  -> 1000
    [] asset = "LTC"  -> 10
    [] asset = "ADA"  -> 1000
    [] asset = "DOT"  -> 100
    [] asset = "LINK" -> 100
    [] asset = "UNI"  -> 100
    [] OTHER -> 0

getMinimumOrderSize(asset) ==
  IF asset \in DOMAIN minimumOrderSizes /\ minimumOrderSizes[asset] # 0
  THEN minimumOrderSizes[asset]
  ELSE IF assetSpecificMinimums(asset) # 0 THEN assetSpecificMinimums(asset) ELSE 1

\* The candidate pair names hasMarketPair and getMarketPair try, in order.
pairNames(asset) ==
  LET krakenAsset == getOriginalAssetName(asset)
      krakenQuote == getOriginalAssetName(targetFiat)
  IN << krakenAsset \o krakenQuote, asset \o targetFiat,
        krakenAsset \o targetFiat, asset \o krakenQuote,
        asset \o "USD", krakenAsset \o "USD" >>
     \o (IF asset = "DOGE" THEN <<"XDGUSD", "XDGZUSD">> ELSE <<>>)
     \o (IF krakenAsset = "XXDG" THEN <<"XDGUSD", "XDGZUSD">> ELSE <<>>)
     \o (IF asset = "ETH" THEN <<"XETHUSD", "XETHZUSD">> ELSE <<>>)
     \o (IF krakenAsset = "XETH" THEN <<"XETHUSD", "XETHZUSD">> ELSE <<>>)

hasMarketPair(asset) ==
  /\ asset # targetFiat
  /\ \E i \in 1..Len(pairNames(asset)) : pairNames(asset)[i] \in DOMAIN pairs

getMarketPair(asset) ==
  LET names == pairNames(asset)
      hits == {i \in 1..Len(names) : names[i] \in DOMAIN pairs}
  IN IF asset = targetFiat \/ hits = {} THEN "null"
     ELSE names[CHOOSE i \in hits : \A j \in hits : i <= j]

\* checkBalanceForAsset: the Balance reply is summed over the native and the
\* standard name of the asset.
totalBalance(balance, asset) ==
  LET krakenAsset == getOriginalAssetName(asset)
      standardAsset == getStandardAssetName(asset)
      at(k) == IF k \in DOMAIN balance THEN balance[k] ELSE 0
  IN at(krakenAsset) + at(standardAsset)

\* ---------------------------------------------------------------- exchange
\* The code a message names an asset by.
codeOf(asset, form) ==
  IF form = "native" THEN getOriginalAssetName(asset) ELSE asset

\* The account as the REST API reports it (form "native": ZUSD, XETH) and as
\* the v2 balances channel reports it (form "standard": USD, ETH).
BalancesAs(form) ==
  [c \in {codeOf(a, form) : a \in Assets} |->
     acct[CHOOSE a \in Assets : codeOf(a, form) = c]]

\* ---------------------------------------------------------- AutoSellService
EmptyMap == [n \in {} |-> 0]

\* Object.entries(balances): the keys in the order the message lists them.
EntryOrders(bal) ==
  {s \in [1..Cardinality(DOMAIN bal) -> DOMAIN bal] :
     \A k \in DOMAIN bal : \E i \in DOMAIN s : s[i] = k}

\* this.currentBalances[asset] || 0
reported(asset) ==
  IF asset \in DOMAIN currentBalances THEN currentBalances[asset] ELSE 0

Min(a, b) == IF a <= b THEN a ELSE b

\* Faulty variant of the gates: only the minimum-size gate is left.
GateResultOnlyMinimum(asset, totalAmount) ==
  IF totalAmount < getMinimumOrderSize(asset) THEN "below_minimum_order"
  ELSE "pass"

\* Faulty variant of the gates: the minimum-size gate is missing.
GateResultNoMinimum(asset, totalAmount) ==
  IF asset = targetFiat \/ asset = convertAssetName(targetFiat)
  THEN "target_currency"
  ELSE IF ~hasMarketPair(asset) THEN "no_market"
  ELSE "pass"

\* Faulty variant of the gates: an amount equal to the minimum is refused.
GateResultAboveMinimum(asset, totalAmount) ==
  IF asset = targetFiat \/ asset = convertAssetName(targetFiat)
  THEN "target_currency"
  ELSE IF ~hasMarketPair(asset) THEN "no_market"
  ELSE IF totalAmount <= getMinimumOrderSize(asset) THEN "below_minimum_order"
  ELSE "pass"

\* Faulty variant of the gates: the minimum size is tested before the
\* market pair.
GateResultMinimumFirst(asset, totalAmount) ==
  IF asset = targetFiat \/ asset = convertAssetName(targetFiat)
  THEN "target_currency"
  ELSE IF totalAmount < getMinimumOrderSize(asset) THEN "below_minimum_order"
  ELSE IF ~hasMarketPair(asset) THEN "no_market"
  ELSE "pass"

\* processBalance up to its first network call: the three gates that are
\* decided without the exchange, and the reason logged when one fails.
GateResult(asset, totalAmount) ==
  IF asset = targetFiat \/ asset = convertAssetName(targetFiat)
  THEN "target_currency"
  ELSE IF ~hasMarketPair(asset) THEN "no_market"
  ELSE IF totalAmount < getMinimumOrderSize(asset) THEN "below_minimum_order"
  ELSE "pass"

\* Faulty variant of processBalanceChange: the update type is not looked at.
CallsProcessBalanceAnyType(oldAmount, newAmount, isSnapshot, updateType) ==
  IF isSnapshot /\ newAmount > 0 THEN TRUE
  ELSE ~isSnapshot /\ newAmount > oldAmount /\ newAmount > 0

\* processBalanceChange: does this entry of a balance message call
\* processBalance?  (updateType is "none" for a snapshot.)
CallsProcessBalance(oldAmount, newAmount, isSnapshot, updateType) ==
  IF isSnapshot /\ newAmount > 0 THEN TRUE
  ELSE ~isSnapshot /\ newAmount > oldAmount /\ newAmount > 0 /\ updateType # "trade"

\* A call chain suspended in processBalance.
\*   h      what called processBalance: "cold" / "snapshot" / "update"
\*          (handleBalanceUpdate, which resumes when it returns), "deposit"
\*          (handleDeposit), "followup" (the partial-fill timer)
\*   utype  type of the feed update, "none" otherwise
\*   bal    the balances handleBalanceUpdate was called with
\*   rest   the entries of bal its loop has not visited yet
\*   code   the asset code as delivered;  asset  its converted name
\*   amt    totalAmount
\*   pc     "check": Balance request in flight
\*          "submit": AddOrder request in flight
\*   attempt, inner   loop counters of processBalance and of withRetry
NewProc(h, utype, bal, rest, code, totalAmount) ==
  [h |-> h, utype |-> utype, bal |-> bal, rest |-> rest, code |-> code,
   asset |-> convertAssetName(code), amt |-> totalAmount,
   pc |-> "check", attempt |-> 0, inner |-> 0]

One(x) == SetToBag({x})

\* handleBalanceUpdate's loop over `rest`, run until it suspends in a
\* processBalance that passed the gates, or runs out.  0 = runs out.
FirstDispatch(bal, rest, isSnapshot, updateType) ==
  LET hit(i) == /\ reported(rest[i]) # bal[rest[i]]
                /\ CallsProcessBalance(reported(rest[i]), bal[rest[i]],
                                       isSnapshot, updateType)
                /\ GateResult(convertAssetName(rest[i]), bal[rest[i]]) = "pass"
      hits == {i \in 1..Len(rest) : hit(i)}
  IN IF hits = {} THEN 0 ELSE CHOOSE i \in hits : \A j \in hits : i <= j

RestAfter(rest, i) == SubSeq(rest, i + 1, Len(rest))

\* Faulty variant of the start-up sequence: processAllBalances is not
\* awaited, the feed is started as soon as the cold pass suspends.
RunLoopNotAwaited(h, utype, bal, rest, others, extra) ==
  LET i == FirstDispatch(bal, rest, h # "update", utype)
  IN IF i # 0
     THEN /\ procs' = others (+) extra (+)
                      One(NewProc(h, utype, bal, RestAfter(rest, i), rest[i], bal[rest[i]]))
          /\ phase' = IF h = "cold" THEN "feed" ELSE phase
          /\ UNCHANGED <<currentBalances, initialProcessingComplete>>
     ELSE /\ procs' = others (+) extra
          /\ currentBalances' = bal
          /\ IF h = "cold"
             THEN initialProcessingComplete' = TRUE /\ phase' = "feed"
             ELSE UNCHANGED <<initialProcessingComplete, phase>>

\* handleBalanceUpdate from the top of its loop (or from the iteration after
\* a processBalance returned) to its next suspension or its end.  `others`
\* are the call chains that stay suspended meanwhile, `extra` the chains the
\* same callback started besides this one.
RunLoop(h, utype, bal, rest, others, extra) ==
  LET i == FirstDispatch(bal, rest, h # "update", utype)
  IN IF i # 0
     THEN /\ procs' = others (+) extra (+)
                      One(NewProc(h, utype, bal, RestAfter(rest, i), rest[i], bal[rest[i]]))
          /\ phase' = IF h = "cold" THEN "coldpass" ELSE phase
          /\ UNCHANGED <<currentBalances, initialProcessingComplete>>
     ELSE /\ procs' = others (+) extra
          /\ currentBalances' = bal
          /\ IF h = "cold"
             THEN initialProcessingComplete' = TRUE /\ phase' = "feed"
             ELSE UNCHANGED <<initialProcessingComplete, phase>>

\* processBalance returned (true or false) to its caller.
Return(p) ==
  LET others == procs (-) One(p)
  IN IF p.h \in {"cold", "snapshot", "update"}
     THEN RunLoop(p.h, p.utype, p.bal, p.rest, others, EmptyBag)
     ELSE /\ procs' = others
          /\ UNCHANGED <<currentBalances, initialProcessingComplete, phase>>

\* The message handled last (history).
\*   kind        "cold" (the Balance reply of the cold pass), "snapshot", or
\*               the type of an update
\*   replay      the message is a feed snapshot, and so was the message
\*               before it, with the same balances
\*   asset, amount   of an update: the asset by converted name, the change
\*   rose        of an update: the new total is above the reported balance
\*   run         of a deposit: 2 when the message before it was a deposit of
\*               the same amount for the same asset and no sell order for
\*               the asset was accepted in between, else 1
\*   started     processBalance calls that passed the gates, made by the
\*               callbacks of the message (of both deposits when run = 2)
\*               before they suspended
\*   sold        an order for `asset` was accepted since the delivery
NoEvent ==
  [kind |-> "none", replay |-> FALSE, asset |-> "none", amount |-> 0,
   rose |-> FALSE, run |-> 0, started |-> 0, sold |-> FALSE]

cfg == <<targetFiat, pairs, minimumOrderSizes>>

\* No request has been handed to the client library yet.
NoRequest == [site |-> "none", method |-> "none", slot |-> FALSE, retry |-> FALSE]

\* No function has been applied yet.
Nothing == [fn |-> "none"]

\* The components modelled apart from the engine, at rest.
OtherIdle ==
  /\ now = 0
  /\ nonces = <<>>
  /\ requests = <<>>
  /\ lastCleanup = 0
  /\ waiters = EmptyBag
  /\ admitted = <<>>
  /\ calls = EmptyBag
  /\ lastSent = NoRequest
  /\ sockets = <<>>
  /\ wsInstance = 0
  /\ isReconnecting = FALSE
  /\ reconnectAttempts = 0
  /\ timeSinceLastHeartbeat = 0
  /\ timers = EmptyBag
  /\ tasks = EmptyBag
  /\ failed = 0
  /\ lastTick = "none"
  /\ running = TRUE
  /\ applied = Nothing

Init ==
  /\ targetFiat = "USD"
  /\ pairs = NoPairs
  /\ minimumOrderSizes = EmptyMap
  /\ currentBalances = EmptyMap
  /\ initialProcessingComplete = FALSE
  /\ isProcessingSnapshot = FALSE
  /\ phase = "init"
  /\ procs = EmptyBag
  /\ monitors = EmptyBag
  /\ followups = EmptyBag
  /\ acct \in [Assets -> Amounts]
  /\ events = 0
  /\ lastEv = NoEvent
  /\ OtherIdle

\* startServices: fetchTradablePairs succeeded.
FetchTradablePairs(catalog) ==
  /\ phase = "init"
  /\ pairs' = catalog
  /\ minimumOrderSizes' = StoredMinimums(catalog, targetFiat)
  /\ phase' = "loaded"
  /\ UNCHANGED <<targetFiat, other, currentBalances, initialProcessingComplete,
                 isProcessingSnapshot, procs, monitors, followups, acct,
                 events, lastEv>>

\* startServices: fetchTradablePairs threw; process.exit(1).
FetchTradablePairsFails ==
  /\ phase = "init"
  /\ phase' = "exit"
  /\ UNCHANGED <<cfg, other, currentBalances, initialProcessingComplete,
                 isProcessingSnapshot, procs, monitors, followups, acct,
                 events, lastEv>>

\* Faulty variant of handleBalanceUpdate(balances, true): the
\* isProcessingSnapshot guard is missing.
SnapshotUpdateUnguarded(h, form, order) ==
  /\ isProcessingSnapshot' = TRUE
  /\ RunLoop(h, "none", BalancesAs(form), order, procs, EmptyBag)
  /\ lastEv' = [NoEvent EXCEPT !.kind = h,
                  !.replay = h = "snapshot" /\ lastEv.kind = "snapshot",
                  !.started = BagCardinality(procs') - BagCardinality(procs)]

\* handleBalanceUpdate(balances, true), called by processAllBalances or for a
\* feed snapshot, from its entry to its first suspension or its end.
SnapshotUpdate(h, form, order) ==
  /\ IF isProcessingSnapshot
     THEN UNCHANGED <<currentBalances, initialProcessingComplete,
                      isProcessingSnapshot, phase, procs>>
     ELSE /\ isProcessingSnapshot' = TRUE
          /\ RunLoop(h, "none", BalancesAs(form), order, procs, EmptyBag)
  /\ lastEv' = [NoEvent EXCEPT !.kind = h,
                  !.replay = h = "snapshot" /\ lastEv.kind = "snapshot",
                  !.started = BagCardinality(procs') - BagCardinality(procs)]

\* processAllBalances: the cold pass over the Balance reply.  startServices
\* awaits it before it starts the feed.
ProcessAllBalances(order) ==
  /\ phase = "loaded"
  /\ SnapshotUpdate("cold", "native", order)
  /\ UNCHANGED <<cfg, other, monitors, followups, acct, events>>

\* processAllBalances: getAccountBalance threw; the error is logged and
\* startServices goes on to start the feed.
ProcessAllBalancesFails ==
  /\ phase = "loaded"
  /\ phase' = "feed"
  /\ UNCHANGED <<cfg, other, currentBalances, initialProcessingComplete,
                 isProcessingSnapshot, procs, monitors, followups, acct,
                 events, lastEv>>

\* handleBalancesMessage, type = snapshot: the feed (re)subscribed.
DeliverSnapshot(order) ==
  /\ phase = "feed"
  /\ events < MaxEvents
  /\ events' = events + 1
  /\ SnapshotUpdate("snapshot", "standard", order)
  /\ BagCardinality(procs') <= MaxProcs
  /\ UNCHANGED <<cfg, other, monitors, followups, acct>>

\* Update records the feed can deliver: the type, the signed change and the
\* new total.
ValidUpdate(utype, amount, balance) ==
  /\ amount # 0
  /\ balance \in Amounts
  /\ utype = "deposit" => amount > 0
  /\ utype = "withdrawal" => amount < 0

\* handleBalancesMessage, type = update, for one update record: emits
\* balanceUpdate ({asset: balance}, false, update) and, for a deposit with a
\* positive amount, deposit (asset, amount).  Neither callback is awaited:
\* each runs to its first suspension.
DeliverUpdate(code, utype, amount, balance) ==
  LET bal == [k \in {code} |-> balance]
      deposits == IF /\ utype = "deposit" /\ amount > 0
                     /\ GateResult(convertAssetName(code), amount) = "pass"
                  THEN One(NewProc("deposit", utype, EmptyMap, <<>>, code, amount))
                  ELSE EmptyBag
      n == BagCardinality(procs') - BagCardinality(procs)
      again == /\ utype = "deposit" /\ lastEv.kind = "deposit" /\ ~lastEv.sold
               /\ lastEv.run = 1
               /\ lastEv.asset = convertAssetName(code) /\ lastEv.amount = amount
  IN /\ isProcessingSnapshot' = FALSE
     /\ RunLoop("update", utype, bal, <<code>>, procs, deposits)
     /\ lastEv' = [NoEvent EXCEPT !.kind = utype,
                     !.asset = convertAssetName(code), !.amount = amount,
                     !.rose = balance > reported(code),
                     !.run = IF utype # "deposit" THEN 0 ELSE IF again THEN 2 ELSE 1,
                     !.started = IF again THEN lastEv.started + n ELSE n]

\* The balance of an asset changes at the exchange; once the feed is
\* started the change is delivered as an update.
BalanceChange(asset, utype, amount) ==
  /\ phase \in {"coldpass", "feed"}
  /\ events < MaxEvents
  /\ events' = events + 1
  /\ ValidUpdate(utype, amount, acct[asset] + amount)
  /\ acct' = [acct EXCEPT ![asset] = @ + amount]
  /\ IF phase = "feed"
     THEN /\ DeliverUpdate(codeOf(asset, "standard"), utype, amount, acct'[asset])
          /\ BagCardinality(procs') <= MaxProcs
     ELSE UNCHANGED <<currentBalances, initialProcessingComplete,
                      isProcessingSnapshot, phase, procs, lastEv>>
  /\ UNCHANGED <<cfg, other, monitors, followups>>

\* processBalance: the AddOrder request goes out (placeMarketSellOrder,
\* first attempt of the loop and of withRetry).
Submitting(p, totalAmount) ==
  [p EXCEPT !.amt = totalAmount, !.pc = "submit",
            !.attempt = 1, !.inner = 1]

\* processBalance: checkBalanceForAsset returned the Balance reply.
CheckBalanceReply(p) ==
  LET availableAmount == Min(p.amt, totalBalance(BalancesAs("native"), p.asset))
  IN /\ BagIn(p, procs)
     /\ p.pc = "check"
     /\ IF availableAmount < getMinimumOrderSize(p.asset)
        THEN Return(p)
        ELSE /\ procs' = (procs (-) One(p)) (+) One(Submitting(p, availableAmount))
             /\ UNCHANGED <<currentBalances, initialProcessingComplete, phase>>
     /\ UNCHANGED <<cfg, other, isProcessingSnapshot, monitors, followups, acct,
                    events, lastEv>>

\* processBalance: the Balance request failed; checkBalanceForAsset returned
\* null, reading null.totalBalance threw, and the catch block goes on with
\* the original amount.
CheckBalanceFails(p) ==
  /\ BagIn(p, procs)
  /\ p.pc = "check"
  /\ procs' = (procs (-) One(p)) (+) One(Submitting(p, p.amt))
  /\ UNCHANGED <<cfg, other, currentBalances, initialProcessingComplete,
                 isProcessingSnapshot, phase, monitors, followups, acct,
                 events, lastEv>>

\* The call chains of a bag that have sent an AddOrder request again.
Retrying(b) ==
  LET again == {q \in BagToSet(b) : q.pc = "submit" /\ (q.attempt > 1 \/ q.inner > 1)}
  IN [q \in again |-> b[q]]

\* placeMarketSellOrder: the AddOrder request in flight ended with `outcome`.
\* withRetry sends it again after a retryable error, up to retryAttempts
\* requests; processBalance calls placeMarketSellOrder again after any
\* error, up to maxRetries calls.
AddOrderReply(p, outcome) ==
  /\ BagIn(p, procs)
  /\ p.pc = "submit"
  /\ IF outcome = "ok"
     THEN /\ Return(p)
          /\ monitors' = monitors (+) One([asset |-> p.asset, amt |-> p.amt])
          /\ BagCardinality(monitors') <= MaxTimers
          /\ lastEv' = [lastEv EXCEPT !.sold = @ \/ (lastEv.run = 1 /\ lastEv.asset = p.asset)]
     ELSE /\ IF isRetryableError(outcome) /\ p.inner < retryAttempts
             THEN /\ procs' = (procs (-) One(p)) (+)
                       One([p EXCEPT !.inner = @ + 1])
                  /\ UNCHANGED <<currentBalances, initialProcessingComplete, phase>>
             ELSE IF p.attempt < maxRetries
             THEN /\ procs' = (procs (-) One(p)) (+)
                       One([p EXCEPT !.attempt = @ + 1, !.inner = 1])
                  /\ UNCHANGED <<currentBalances, initialProcessingComplete, phase>>
             ELSE Return(p)
          /\ BagCardinality(Retrying(procs')) <= MaxRetrying
          /\ UNCHANGED <<monitors, lastEv>>
  /\ UNCHANGED <<cfg, other, isProcessingSnapshot, followups, acct, events>>

\* The 5 s timer of an accepted order: getOrderStatus answered.  A closed
\* order whose volume is below the amount sold arms the 2 s timer for the
\* remainder.
OrderStatusReply(m, status, volume) ==
  /\ BagIn(m, monitors)
  /\ monitors' = monitors (-) One(m)
  /\ IF status = "closed" /\ volume < m.amt
     THEN /\ followups' = followups (+) One([asset |-> m.asset, amt |-> m.amt - volume])
          /\ BagCardinality(followups') <= MaxTimers
     ELSE UNCHANGED followups
  /\ UNCHANGED <<cfg, other, currentBalances, initialProcessingComplete,
                 isProcessingSnapshot, phase, procs, acct, events, lastEv>>

\* The 5 s timer of an accepted order: getOrderStatus returned null (order
\* not found, or the request failed).
OrderStatusNull(m) ==
  /\ BagIn(m, monitors)
  /\ monitors' = monitors (-) One(m)
  /\ UNCHANGED <<cfg, other, currentBalances, initialProcessingComplete,
                 isProcessingSnapshot, phase, procs, followups, acct, events,
                 lastEv>>

\* The 2 s timer: processBalance(asset, remainingAmount).
FollowUp(f) ==
  /\ BagIn(f, followups)
  /\ followups' = followups (-) One(f)
  /\ IF GateResult(f.asset, f.amt) = "pass"
     THEN procs' = procs (+) One(NewProc("followup", "none", EmptyMap, <<>>, f.asset, f.amt))
     ELSE UNCHANGED procs
  /\ BagCardinality(procs') <= MaxProcs
  /\ UNCHANGED <<cfg, other, currentBalances, initialProcessingComplete,
                 isProcessingSnapshot, phase, monitors, acct, events, lastEv>>

Next ==
  \/ \E c \in Catalogs : FetchTradablePairs(c)
  \/ FetchTradablePairsFails
  \/ \E o \in EntryOrders(BalancesAs("native")) : ProcessAllBalances(o)
  \/ ProcessAllBalancesFails
  \/ \E o \in EntryOrders(BalancesAs("standard")) : DeliverSnapshot(o)
  \/ \E a \in Assets, t \in UpdateTypes, d \in (0 - MaxAmt)..MaxAmt :
       BalanceChange(a, t, d)
  \/ \E p \in BagToSet(procs) : CheckBalanceReply(p)
  \/ \E p \in BagToSet(procs) : CheckBalanceFails(p)
  \/ \E p \in BagToSet(procs) : \E o \in Outcomes : AddOrderReply(p, o)
  \/ \E m \in BagToSet(monitors) : \E s \in {"closed", "open"}, v \in Amounts :
       OrderStatusReply(m, s, v)
  \/ \E m \in BagToSet(monitors) : OrderStatusNull(m)
  \/ \E f \in BagToSet(followups) : FollowUp(f)

Spec == Init /\ [][Next]_vars

\* ------------------------------------------------------------- properties
\* The codes the target fiat goes by.
FiatCodes ==
  {targetFiat, convertAssetName(targetFiat), getOriginalAssetName(targetFiat)}

\* The call chains in flight for an asset: processBalance passed the gates
\* and has not returned.
InFlight(asset) ==
  [p \in {q \in BagToSet(procs) : q.asset = asset} |-> procs[p]]

\* The AddOrder requests on the wire.
OnTheWire(b) ==
  [p \in {q \in BagToSet(b) : q.pc = "submit"} |-> b[p]]

\* AddOrder requests a call chain has sent at least: one for every earlier
\* call of placeMarketSellOrder, and `inner` in the current call.
minRequestsSent(p) == (p.attempt - 1) + p.inner

\* C1: no AddOrder request is ever in flight for the target fiat, whether
\* the balance message named it by its native or by its standard code.
C1_FiatNeverSubmitted ==
  \A p \in BagToSet(procs) :
    p.pc = "submit" => p.code \notin FiatCodes /\ p.asset \notin FiatCodes

\* C1 case: with a pair catalog loaded and the cold pass over, the feed
\* delivered a deposit of the target fiat of at least the minimum size, and
\* neither callback started a dispatch.
C1_FiatDeposited ==
  /\ lastEv.kind = "deposit"
  /\ lastEv.asset = targetFiat
  /\ lastEv.amount >= getMinimumOrderSize(targetFiat)
  /\ lastEv.started = 0
  /\ initialProcessingComplete
  /\ pairs # NoPairs

\* C2 as stated: at any instant at most one dispatch is in flight per asset.
C2_SingleFlight ==
  \A a \in Assets : BagCardinality(InFlight(a)) <= 1

\* C3 as stated: a deposit update for an asset with a market, whose
\* resulting total is at least the minimum order size, starts exactly one
\* dispatch.
C3_OneDispatchPerDeposit ==
  ( /\ lastEv.kind = "deposit"
    /\ lastEv.run = 1
    /\ GateResult(lastEv.asset, acct[lastEv.asset]) = "pass" )
  => lastEv.started = 1

\* C4: no AddOrder request is ever in flight with a volume below the
\* minimum order size of its asset.
C4_VolumeAtLeastMinimum ==
  \A p \in BagToSet(procs) :
    p.pc = "submit" => p.amt >= getMinimumOrderSize(p.asset)

\* C4 case: the remainder of a partial fill is exactly the minimum taken
\* from the pair catalog, and its order is on the wire.
C4_FollowUpAtMinimum ==
  \E p \in BagToSet(procs) :
    /\ p.pc = "submit"
    /\ p.h = "followup"
    /\ p.asset \in DOMAIN minimumOrderSizes
    /\ p.amt = getMinimumOrderSize(p.asset)

\* C5: an update of type trade starts no dispatch: its callbacks start none
\* and no call chain in flight stems from one.
C5_TradeNeverDispatches ==
  /\ lastEv.kind = "trade" => lastEv.started = 0
  /\ \A p \in BagToSet(procs) : p.utype # "trade"

\* C5 case: a trade update raised the balance of a sellable asset above the
\* reported balance, to at least the minimum order size.
C5_TradeRaisedBalance ==
  /\ lastEv.kind = "trade"
  /\ lastEv.amount > 0
  /\ lastEv.rose
  /\ GateResult(lastEv.asset, acct[lastEv.asset]) = "pass"

\* C6 as stated: after an AddOrder request failed with a connection reset
\* or a timeout, the call chain sends no AddOrder request again: one request
\* fewer is on the wire.
C6_AmbiguousNeverResent ==
  [][ \A p \in BagToSet(procs) : \A o \in Ambiguous :
        AddOrderReply(p, o) =>
          BagCardinality(OnTheWire(procs')) < BagCardinality(OnTheWire(procs)) ]_vars

\* C7 as stated: no AddOrder request is ever in flight for a dispatch that
\* an update of type withdrawal, adjustment or transfer started.
C7_OnlyDepositsSubmit ==
  \A p \in BagToSet(procs) :
    p.pc = "submit" => p.utype \notin {"withdrawal", "adjustment", "transfer"}

\* C8 as stated: two back-to-back deposits of the same amount for the same
\* asset, no order for it accepted in between, start at most one dispatch.
C8_DepositsCoalesce ==
  lastEv.run = 2 => lastEv.started <= 1

\* C9 as stated: a dispatch sends at most three AddOrder requests.
C9_AtMostThreeRequests ==
  \A p \in BagToSet(procs) :
    p.pc = "submit" => minRequestsSent(p) <= 3

statusBalance(asset) ==
  IF asset \in DOMAIN currentBalances THEN currentBalances[asset]
  ELSE reported(getOriginalAssetName(asset))

\* C11 as stated: once a feed snapshot has been handled and nothing is in
\* flight, the status surface shows for every asset the balance the snapshot
\* reported.
C11_SnapshotIsGroundTruth ==
  (lastEv.kind = "snapshot" /\ procs = EmptyBag)
  => \A a \in Assets : statusBalance(a) = BalancesAs("standard")[a]

\* ------------------------------------------------------------------ nonce
\* The engine as constructed, with an empty account: its state in the
\* specifications of the other components.
EngineIdle ==
  /\ targetFiat = "USD"
  /\ pairs = NoPairs
  /\ minimumOrderSizes = EmptyMap
  /\ currentBalances = EmptyMap
  /\ initialProcessingComplete = FALSE
  /\ isProcessingSnapshot = FALSE
  /\ phase = "init"
  /\ procs = EmptyBag
  /\ monitors = EmptyBag
  /\ followups = EmptyBag
  /\ acct = [a \in Assets |-> 0]
  /\ events = 0
  /\ lastEv = NoEvent

\* The clock advances by one tick (one millisecond for the nonce).
Tick ==
  /\ now < MaxNow
  /\ now' = now + 1
  /\ UNCHANGED <<engine, nonces, limiter, restApi, feed, aux>>

\* getNonce: Date.now() * 1000.
getNonce == now * 1000

\* A signed request is built and sent with a fresh nonce.
SignedRequest ==
  /\ Len(nonces) < MaxRequests
  /\ nonces' = Append(nonces, getNonce)
  /\ UNCHANGED <<engine, now, limiter, restApi, feed, aux>>

InitNonce == EngineIdle /\ OtherIdle

NextNonce ==
  \/ Tick
  \/ SignedRequest

SpecNonce == InitNonce /\ [][NextNonce]_vars

\* C12 as stated: every signed request carries a nonce strictly greater than
\* the nonce of every request sent before it.
C12_NonceStrictlyIncreasing ==
  \A i, j \in 1..Len(nonces) : i < j => nonces[i] < nonces[j]

\* ----------------------------------------------------------- rate limiter
\* The clock is in milliseconds here.
RECURSIVE DropOld(_, _)
\* while (requests.length > 0 && requests[0] < cutoffTime) requests.shift()
DropOld(reqs, cutoffTime) ==
  IF reqs # <<>> /\ Head(reqs) < cutoffTime
  THEN DropOld(Tail(reqs), cutoffTime)
  ELSE reqs

\* _cleanup: requests.filter(time => time >= cutoffTime)
Cleanup(reqs, cutoffTime) == SelectSeq(reqs, LAMBDA time : time >= cutoffTime)

\* requests.push(now) and the emergency cleanup behind it: above
\* maxArraySize entries only the newest 80% of maxArraySize are kept.
Push(reqs, stamp) ==
  LET pushed == Append(reqs, stamp)
      keepCount == (maxArraySize * 8) \div 10
  IN IF Len(pushed) > maxArraySize
     THEN SubSeq(pushed, Len(pushed) - keepCount + 1, Len(pushed))
     ELSE pushed

\* waitForSlot, from its entry to its return or to the timer it waits in.
\* `now` is read once, at entry.
WaitForSlot ==
  LET due == now - lastCleanup > cleanupInterval
      cleaned == IF due THEN Cleanup(requests, now - period) ELSE requests
      kept == DropOld(cleaned, now - period)
      waitTime == IF kept = <<>> THEN 0 ELSE period - (now - Head(kept))
  IN /\ Len(admitted) + BagCardinality(waiters) < MaxCalls
     /\ lastCleanup' = IF due THEN now ELSE lastCleanup
     /\ IF Len(kept) >= maxRequests /\ waitTime > 0
        THEN /\ requests' = kept
             /\ waiters' = waiters (+) One([stamp |-> now, wake |-> now + waitTime])
             /\ BagCardinality(waiters') <= MaxWaiters
             /\ UNCHANGED admitted
        ELSE /\ requests' = Push(kept, now)
             /\ admitted' = Append(admitted, now)
             /\ UNCHANGED waiters
     /\ UNCHANGED <<engine, now, nonces>>

\* waitForSlot with a promise that nothing resolves: the timer fires and
\* the call stays where it is.
WaitForSlotNeverResolved(w) ==
  /\ BagIn(w, waiters)
  /\ now >= w.wake
  /\ UNCHANGED vars

\* waitForSlot: the timer fired; the timestamp read at entry is pushed and
\* the call returns.
WaitForSlotResumes(w) ==
  /\ BagIn(w, waiters)
  /\ now >= w.wake
  /\ waiters' = waiters (-) One(w)
  /\ requests' = Push(requests, w.stamp)
  /\ admitted' = Append(admitted, now)
  /\ UNCHANGED <<engine, now, nonces, lastCleanup, restApi, feed, aux>>

\* Time passes until the earliest timer of a waiting call is due.
Elapse ==
  /\ waiters # EmptyBag
  /\ \E w \in BagToSet(waiters) :
       /\ \A v \in BagToSet(waiters) : w.wake <= v.wake
       /\ now < w.wake
       /\ now' = w.wake
  /\ UNCHANGED <<engine, nonces, limiter, restApi, feed, aux>>

InitLimiter == EngineIdle /\ OtherIdle

NextLimiter ==
  \/ Tick
  \/ Elapse
  \/ (WaitForSlot /\ UNCHANGED <<restApi, feed, aux>>)
  \/ \E w \in BagToSet(waiters) : WaitForSlotResumes(w)

SpecLimiter == InitLimiter /\ [][NextLimiter]_vars

\* The calls that can be waiting: entered at a tick of the clock, due one
\* period after the oldest request of the window.
WaiterRecords == [stamp : 0..MaxNow, wake : period..(period + MaxNow)]

\* The limiter with the event loop's guarantees: time passes, and a timer
\* that is due runs its callback.
SpecLimiterFair ==
  /\ InitLimiter /\ [][NextLimiter]_vars
  /\ WF_vars(Elapse)
  /\ \A w \in WaiterRecords : WF_vars(WaitForSlotResumes(w))

\* Requests admitted in the second that starts with the i-th admission.
AdmittedInWindow(i) ==
  {j \in 1..Len(admitted) :
     admitted[i] <= admitted[j] /\ admitted[j] < admitted[i] + period}

\* C13 as stated: at most maxRequests requests are admitted in any window
\* of one period.
C13_AtMostMaxPerWindow ==
  \A i \in 1..Len(admitted) : Cardinality(AdmittedInWindow(i)) <= maxRequests

\* C14 as stated: two requests admitted one after the other are at least
\* 100 ms apart.
C14_MinimumSpacing ==
  \A i \in 1..Len(admitted) - 1 : admitted[i + 1] - admitted[i] >= 100


\* ---------------------------------------------------------------------
\* The REST call sites
\* ---------------------------------------------------------------------

\* Every place that calls kraken.api: the method it asks for, the method
\* it asks for next when the first answer names trades, whether it awaits
\* rateLimiter.waitForSlot() before the call and whether the call runs
\* inside withRetry.
CallSites ==
  [ fetchTradablePairs |->
      [method |-> "AssetPairs", next |-> "none", waitForSlot |-> TRUE, withRetry |-> TRUE],
    fetchMinimumOrderSizesForAssets |->
      [method |-> "AssetPairs", next |-> "none", waitForSlot |-> TRUE, withRetry |-> TRUE],
    getOrderStatus |->
      [method |-> "QueryOrders", next |-> "none", waitForSlot |-> TRUE, withRetry |-> FALSE],
    getTradeDetails |->
      [method |-> "QueryTrades", next |-> "none", waitForSlot |-> TRUE, withRetry |-> TRUE],
    getWebSocketToken |->
      [method |-> "GetWebSocketsToken", next |-> "none", waitForSlot |-> TRUE, withRetry |-> TRUE],
    getAccountBalance |->
      [method |-> "Balance", next |-> "none", waitForSlot |-> TRUE, withRetry |-> TRUE],
    checkBalanceForAsset |->
      [method |-> "Balance", next |-> "none", waitForSlot |-> TRUE, withRetry |-> FALSE],
    placeMarketSellOrder |->
      [method |-> "AddOrder", next |-> "none", waitForSlot |-> TRUE, withRetry |-> TRUE],
    getTrade |->
      [method |-> "QueryOrders", next |-> "QueryTrades", waitForSlot |-> FALSE, withRetry |-> FALSE],
    getBatchTrades |->
      [method |-> "QueryOrders", next |-> "QueryTrades", waitForSlot |-> FALSE, withRetry |-> FALSE] ]

\* A call site is entered.  getBatchTrades loops over the txids of the
\* request body; every other site makes one pass.
RestCall(site, txids) ==
  /\ BagCardinality(calls) < MaxRestCalls
  /\ txids = 1 \/ site = "getBatchTrades"
  /\ calls' = calls (+) One([site |-> site, method |-> CallSites[site].method,
                             attempt |-> 1, stage |-> "entered", slot |-> FALSE,
                             txids |-> txids])
  /\ UNCHANGED <<engine, now, nonces, limiter, lastSent, feed, aux>>

\* await this.rateLimiter.waitForSlot(), for a call the limiter lets
\* through at once (a full window is the subject of SpecLimiter).
RestWaitForSlot(c) ==
  /\ BagIn(c, calls)
  /\ c.stage = "entered"
  /\ CallSites[c.site].waitForSlot
  /\ Len(admitted) < MaxSlots
  /\ WaitForSlot
  /\ waiters' = waiters
  /\ calls' = (calls (-) One(c)) (+) One([c EXCEPT !.stage = "admitted", !.slot = TRUE])
  /\ UNCHANGED <<lastSent, feed, aux>>

\* this.kraken.api(method, ...): the request goes to the client library.
RestSend(c) ==
  /\ BagIn(c, calls)
  /\ \/ c.stage = "admitted"
     \/ c.stage = "entered" /\ ~CallSites[c.site].waitForSlot
  /\ calls' = (calls (-) One(c)) (+) One([c EXCEPT !.stage = "sent"])
  /\ lastSent' = [site |-> c.site, method |-> c.method, slot |-> c.slot,
                  retry |-> CallSites[c.site].withRetry]
  /\ UNCHANGED <<engine, now, nonces, limiter, feed, aux>>

\* The call site after one txid of its work is over: getBatchTrades goes
\* on with the next txid, every other site returns.
Finished(c) ==
  IF c.txids > 1
  THEN (calls (-) One(c)) (+)
       One([c EXCEPT !.txids = c.txids - 1, !.method = CallSites[c.site].method,
                     !.attempt = 1, !.stage = "entered", !.slot = FALSE])
  ELSE calls (-) One(c)

\* The client library resolves or rejects.  trades: the order that came
\* back names trades, so that getTrade and getBatchTrades ask for them.
\* withRetry runs the operation again after a retryable error while
\* attempts are left; a site without withRetry gives up at once.
RestReply(c, outcome, trades) ==
  /\ BagIn(c, calls)
  /\ c.stage = "sent"
  /\ calls' =
       IF outcome = "ok"
       THEN IF trades /\ CallSites[c.site].next # "none" /\ c.method # CallSites[c.site].next
            THEN (calls (-) One(c)) (+)
                 One([c EXCEPT !.method = CallSites[c.site].next,
                               !.stage = "entered", !.slot = FALSE])
            ELSE Finished(c)
       ELSE IF /\ CallSites[c.site].withRetry
               /\ isRetryableError(outcome)
               /\ c.attempt < retryAttempts
            THEN (calls (-) One(c)) (+)
                 One([c EXCEPT !.attempt = c.attempt + 1,
                               !.stage = "entered", !.slot = FALSE])
            ELSE Finished(c)
  /\ UNCHANGED <<engine, now, nonces, limiter, lastSent, feed, aux>>

InitRest == EngineIdle /\ OtherIdle

NextRest ==
  \/ \E site \in DOMAIN CallSites : \E txids \in 1..MaxTxids : RestCall(site, txids)
  \/ \E c \in BagToSet(calls) : RestWaitForSlot(c)
  \/ \E c \in BagToSet(calls) : RestSend(c)
  \/ \E c \in BagToSet(calls) : \E o \in Outcomes : \E trades \in BOOLEAN :
       RestReply(c, o, trades)

SpecRest == InitRest /\ [][NextRest]_vars

\* C15 as stated: every request handed to the client library was admitted
\* by the rate limiter and runs under the retry wrapper.
C15_LimitedAndRetried ==
  lastSent.site # "none" => lastSent.slot /\ lastSent.retry


\* ---------------------------------------------------------------------
\* The balance feed connection (WebSocketService)
\* ---------------------------------------------------------------------

notFeed == <<engine, now, nonces, limiter, restApi, aux>>

\* The socket made last, 0 when none was made yet.
privateWs == Len(sockets)

\* A timer or interval, by the field or closure that made it.  leaked: the
\* field that held its handle was overwritten while it was armed, so that
\* no clearInterval can reach it any more.
Timer(kind, delay) == [kind |-> kind, delay |-> delay, leaked |-> FALSE]

\* clearInterval(handle) / clearTimeout(handle) of the handle a field holds.
Clear(armed, timer) == armed (-) One(timer)

\* field = setInterval(...): the handle the field held before is lost.
Overwrite(armed, timer) ==
  IF BagIn(timer, armed)
  THEN (armed (-) One(timer)) (+) One([timer EXCEPT !.leaked = TRUE]) (+) One(timer)
  ELSE armed (+) One(timer)

\* isConnected(): wsInstance && wsInstance.readyState === WebSocket.OPEN
isConnected == wsInstance # 0 /\ sockets[wsInstance] = "OPEN"

\* new WebSocket(endpoint) in startPrivateWebSocket.
NewSocket ==
  /\ Len(sockets) < MaxSockets
  /\ sockets' = Append(sockets, "CONNECTING")

\* start(): fetchTradablePairs is awaited first.
Start ==
  /\ running
  /\ sockets = <<>> /\ tasks = EmptyBag /\ timers = EmptyBag
  /\ tasks' = One([kind |-> "start", step |-> "pairs", delay |-> 0])
  /\ UNCHANGED <<notFeed, lastTick, sockets, wsInstance, isReconnecting, reconnectAttempts,
                 timeSinceLastHeartbeat, timers, failed, running>>

\* start(): an awaited REST call answers.  After the pairs the token is
\* fetched; after the token the socket is made and kept in wsInstance; an
\* error at either step arms the 5 s timer that calls start() again.
StartReply(t, ok) ==
  /\ running
  /\ BagIn(t, tasks) /\ t.kind = "start"
  /\ IF ~ok
     THEN /\ tasks' = tasks (-) One(t)
          /\ timers' = timers (+) One(Timer("start", reconnectDelay))
          /\ UNCHANGED <<sockets, wsInstance>>
     ELSE IF t.step = "pairs"
          THEN /\ tasks' = (tasks (-) One(t)) (+) One([t EXCEPT !.step = "token"])
               /\ UNCHANGED <<sockets, wsInstance, timers>>
          ELSE /\ tasks' = tasks (-) One(t)
               /\ NewSocket
               /\ wsInstance' = Len(sockets')
               /\ UNCHANGED timers
  /\ UNCHANGED <<notFeed, lastTick, isReconnecting, reconnectAttempts,
                 timeSinceLastHeartbeat, failed, running>>

\* setTimeout(() => this.start(), reconnectDelay) fires.
StartTimerFires ==
  /\ running
  /\ BagIn(Timer("start", reconnectDelay), timers)
  /\ timers' = timers (-) One(Timer("start", reconnectDelay))
  /\ tasks' = tasks (+) One([kind |-> "start", step |-> "pairs", delay |-> 0])
  /\ UNCHANGED <<notFeed, lastTick, sockets, wsInstance, isReconnecting, reconnectAttempts,
                 timeSinceLastHeartbeat, failed, running>>

\* The open handler of socket s: the watchdog is started (after clearing
\* the one before), the subscription is sent, the ping interval is stored.
SocketOpens(s) ==
  /\ running
  /\ s \in 1..Len(sockets) /\ sockets[s] = "CONNECTING"
  /\ sockets' = [sockets EXCEPT ![s] = "OPEN"]
  /\ timers' = Overwrite(Clear(timers, Timer("heartbeatCheck", heartbeatCheckPeriod))
                           (+) One(Timer("heartbeatCheck", heartbeatCheckPeriod)),
                         Timer("ping", pingInterval))
  /\ failed' = 0
  /\ UNCHANGED <<notFeed, lastTick, wsInstance, isReconnecting, reconnectAttempts,
                 timeSinceLastHeartbeat, tasks, running>>

\* The close handler: both intervals are cleared; unless a reconnection is
\* marked in progress, one is marked and its timer armed with the backoff
\* delay.
OnClose ==
  LET cleared == Clear(Clear(timers, Timer("ping", pingInterval)),
                       Timer("heartbeatCheck", heartbeatCheckPeriod))
      delay == Min(baseReconnectDelay * 2^reconnectAttempts, maxDelay)
  IN IF isReconnecting
     THEN /\ timers' = cleared
          /\ UNCHANGED isReconnecting
     ELSE /\ isReconnecting' = TRUE
          /\ timers' = cleared (+) One(Timer("reconnect", delay))

\* Socket s never opens: error, then close.  For a socket made by the
\* reconnect path this is a failed reconnection attempt.
SocketFails(s) ==
  /\ running
  /\ s \in 1..Len(sockets) /\ sockets[s] = "CONNECTING"
  /\ sockets' = [sockets EXCEPT ![s] = "CLOSED"]
  /\ OnClose
  /\ failed' = IF s > 1 THEN Min(failed + 1, MaxFailed) ELSE failed
  /\ UNCHANGED <<notFeed, lastTick, wsInstance, reconnectAttempts, timeSinceLastHeartbeat,
                 tasks, running>>

\* Socket s closes: the peer or the network ends it, or the closing
\* handshake begun by close() completes.
SocketCloses(s) ==
  /\ running
  /\ s \in 1..Len(sockets) /\ sockets[s] \in {"OPEN", "CLOSING"}
  /\ sockets' = [sockets EXCEPT ![s] = "CLOSED"]
  /\ OnClose
  /\ UNCHANGED <<notFeed, lastTick, wsInstance, reconnectAttempts, timeSinceLastHeartbeat,
                 tasks, failed, running>>

\* The reconnect timer as an interval: it fires and stays armed.
ReconnectTimerFiresRearmed(t) ==
  /\ running
  /\ BagIn(t, timers) /\ t.kind = "reconnect"
  /\ tasks' = tasks (+) One([kind |-> "reconnect", step |-> "token", delay |-> t.delay])
  /\ UNCHANGED <<notFeed, lastTick, sockets, wsInstance, isReconnecting, reconnectAttempts,
                 timeSinceLastHeartbeat, timers, failed, running>>

\* The reconnect timer of the close handler fires: the token is asked for.
ReconnectTimerFires(t) ==
  /\ running
  /\ BagIn(t, timers) /\ t.kind = "reconnect"
  /\ timers' = timers (-) One(t)
  /\ tasks' = tasks (+) One([kind |-> "reconnect", step |-> "token", delay |-> t.delay])
  /\ UNCHANGED <<notFeed, lastTick, sockets, wsInstance, isReconnecting, reconnectAttempts,
                 timeSinceLastHeartbeat, failed, running>>

\* The token request of the reconnect task answers.  With a token the new
\* socket is made (and kept nowhere) and the attempts start again from 0;
\* without one the attempt is counted and, below maxReconnectAttempts, the
\* retry timer is armed with the same delay.  finally: isReconnecting = false.
ReconnectReply(t, ok) ==
  /\ running
  /\ BagIn(t, tasks) /\ t.kind = "reconnect"
  /\ tasks' = tasks (-) One(t)
  /\ isReconnecting' = FALSE
  /\ IF ok
     THEN /\ NewSocket
          /\ reconnectAttempts' = 0
          /\ UNCHANGED <<timers, failed>>
     ELSE /\ reconnectAttempts' = reconnectAttempts + 1
          /\ failed' = Min(failed + 1, MaxFailed)
          /\ timers' = IF reconnectAttempts' < maxReconnectAttempts
                       THEN timers (+) One(Timer("retry", t.delay))
                       ELSE timers
          /\ UNCHANGED sockets
  /\ UNCHANGED <<notFeed, lastTick, wsInstance, timeSinceLastHeartbeat, running>>

\* The retry timer as an interval: it fires, makes a socket and stays armed.
RetryTimerFiresRearmed(t) ==
  /\ running
  /\ BagIn(t, timers) /\ t.kind = "retry"
  /\ isReconnecting' = FALSE
  /\ NewSocket
  /\ UNCHANGED <<notFeed, lastTick, wsInstance, reconnectAttempts, timeSinceLastHeartbeat,
                 tasks, timers, failed, running>>

\* The retry timer fires: isReconnecting = false and a socket is made with
\* the token of the closed connection.
RetryTimerFires(t) ==
  /\ running
  /\ BagIn(t, timers) /\ t.kind = "retry"
  /\ timers' = timers (-) One(t)
  /\ isReconnecting' = FALSE
  /\ NewSocket
  /\ UNCHANGED <<notFeed, lastTick, wsInstance, reconnectAttempts, timeSinceLastHeartbeat,
                 tasks, failed, running>>

\* handleHeartbeatMessage: a heartbeat arrives on the open socket s.
Heartbeat(s) ==
  /\ running
  /\ s \in 1..Len(sockets) /\ sockets[s] = "OPEN"
  /\ timeSinceLastHeartbeat' = 0
  /\ UNCHANGED <<notFeed, lastTick, sockets, wsInstance, isReconnecting, reconnectAttempts,
                 timers, tasks, failed, running>>

\* Ten seconds pass without a heartbeat.
TimePasses ==
  /\ running
  /\ timeSinceLastHeartbeat < MaxSilence
  /\ timeSinceLastHeartbeat' = timeSinceLastHeartbeat + heartbeatCheckPeriod
  /\ UNCHANGED <<notFeed, lastTick, sockets, wsInstance, isReconnecting, reconnectAttempts,
                 timers, tasks, failed, running>>

\* The watchdog interval t ticks: after more than heartbeatTimeout of
\* silence wsInstance is closed if it is open.
HeartbeatCheck(t) ==
  /\ running
  /\ BagIn(t, timers) /\ t.kind = "heartbeatCheck"
  /\ sockets' = IF timeSinceLastHeartbeat > heartbeatTimeout /\ isConnected
                THEN [sockets EXCEPT ![wsInstance] = "CLOSING"]
                ELSE sockets
  /\ lastTick' = IF timeSinceLastHeartbeat > heartbeatTimeout
                    /\ privateWs > 0 /\ sockets[privateWs] = "OPEN"
                 THEN IF sockets'[privateWs] = "CLOSING" THEN "closed" ELSE "missed"
                 ELSE "quiet"
  /\ UNCHANGED <<notFeed, wsInstance, isReconnecting, reconnectAttempts,
                 timeSinceLastHeartbeat, timers, tasks, failed, running>>

\* String.prototype.includes on a text given as its pieces: exact match,
\* capitals included.
includes(message, needle) == \E i \in DOMAIN message : message[i] = needle

\* The errorMessage of a subscriptionStatus error, as the pieces of its
\* text the handler searches for and the text around them; <<>> is a
\* message without errorMessage.
SubscriptionErrors ==
  { <<"Event(s) not found">>, <<"Invalid channel">>,
    <<"ESession:", "Invalid token">>, <<"Subscription rate limit exceeded">>, <<>> }

permanentErrors == {"Event(s) not found", "Invalid channel", "Invalid token"}

isPermanentError(errorMessage) ==
  \E err \in permanentErrors : includes(errorMessage, err)

\* handleErrorMessage for a subscriptionStatus error received on the open
\* socket s: unless the error is a permanent one, the 5 s resubscribe
\* timer is armed.
SubscriptionError(s, errorMessage) ==
  /\ running
  /\ s \in 1..Len(sockets) /\ sockets[s] = "OPEN"
  /\ IF isPermanentError(errorMessage)
     THEN UNCHANGED timers
     ELSE /\ CopiesIn(Timer("resubscribe", resubscribeDelay), timers) < MaxResubscribe
          /\ timers' = timers (+) One(Timer("resubscribe", resubscribeDelay))
  /\ UNCHANGED <<notFeed, lastTick, sockets, wsInstance, isReconnecting, reconnectAttempts,
                 timeSinceLastHeartbeat, tasks, failed, running>>

\* The resubscribe timer has fired and getWebSocketToken has answered:
\* with a token, and wsInstance open, the subscription is sent again on
\* wsInstance; otherwise nothing is sent.  sentOn: the socket the
\* subscribe went out on, 0 for none.
ResubscribeTimerFires(newToken) ==
  /\ running
  /\ BagIn(Timer("resubscribe", resubscribeDelay), timers)
  /\ timers' = timers (-) One(Timer("resubscribe", resubscribeDelay))
  /\ applied' = [fn |-> "resubscribe",
                 sentOn |-> IF newToken /\ isConnected THEN wsInstance ELSE 0]
  /\ UNCHANGED <<engine, now, nonces, limiter, restApi, lastTick, sockets, wsInstance,
                 isReconnecting, reconnectAttempts, timeSinceLastHeartbeat, tasks,
                 failed, running>>

\* gracefulShutdown without its last statement: global.ws and
\* global.pingInterval are never assigned, so nothing is closed or cleared.
ShutdownWithoutExit ==
  /\ running
  /\ running' = FALSE
  /\ UNCHANGED <<notFeed, lastTick, sockets, wsInstance, isReconnecting, reconnectAttempts,
                 timeSinceLastHeartbeat, timers, tasks, failed>>

\* gracefulShutdown on SIGTERM or SIGINT: global.ws and global.pingInterval
\* are never assigned, so the handler comes down to process.exit(0).  The
\* process ends: its event loop with every timer, interval and pending
\* call chain is gone and the system closes its connections.
Shutdown ==
  /\ running
  /\ running' = FALSE
  /\ timers' = EmptyBag
  /\ tasks' = EmptyBag
  /\ sockets' = [s \in DOMAIN sockets |-> "CLOSED"]
  /\ UNCHANGED <<notFeed, lastTick, wsInstance, isReconnecting, reconnectAttempts,
                 timeSinceLastHeartbeat, failed>>

InitFeed == EngineIdle /\ OtherIdle

NextFeed ==
  \/ Start
  \/ \E t \in BagToSet(tasks) : \E ok \in BOOLEAN : StartReply(t, ok)
  \/ StartTimerFires
  \/ \E s \in 1..Len(sockets) : SocketOpens(s)
  \/ \E s \in 1..Len(sockets) : SocketFails(s)
  \/ \E s \in 1..Len(sockets) : SocketCloses(s)
  \/ \E t \in BagToSet(timers) : ReconnectTimerFires(t)
  \/ \E t \in BagToSet(tasks) : \E ok \in BOOLEAN : ReconnectReply(t, ok)
  \/ \E t \in BagToSet(timers) : RetryTimerFires(t)
  \/ \E s \in 1..Len(sockets) : Heartbeat(s)
  \/ TimePasses
  \/ \E t \in BagToSet(timers) : HeartbeatCheck(t)
  \/ \E s \in 1..Len(sockets) : \E m \in SubscriptionErrors : SubscriptionError(s, m)
  \/ \E newToken \in BOOLEAN : ResubscribeTimerFires(newToken)
  \/ Shutdown

SpecFeed == InitFeed /\ [][NextFeed]_vars

\* The entries of a bag of timers or tasks whose kind is one of kinds.
OfKind(b, kinds) ==
  [x \in {y \in BagToSet(b) : y.kind \in kinds} |-> CopiesIn(x, b)]

\* Reconnects scheduled or in progress: the timers of start(), of the close
\* handler and of its retry, and the call chains they started.
ReconnectionTasks ==
  BagCardinality(OfKind(timers, {"start", "reconnect", "retry"}))
    + BagCardinality(OfKind(tasks, {"start", "reconnect"}))

\* C16 as stated: after ten reconnection attempts failed in a row no
\* reconnect is scheduled and the status surface reports the feed as not
\* connected.
C16_GivesUpAfterTen ==
  (running /\ failed >= maxReconnectAttempts)
    => (ReconnectionTasks = 0 /\ ~isConnected)

\* C17: at any time at most one reconnection task (an armed reconnect or
\* retry timer, or a reconnect attempt in progress) exists for the feed.
C17_OneReconnectionTask == ReconnectionTasks <= 1

\* The retry timer is armed after a failed token request: isReconnecting
\* is false again while the reconnection is still pending.
C17_RetryPending ==
  /\ ReconnectionTasks = 1
  /\ ~isReconnecting
  /\ \E t \in BagToSet(timers) : t.kind = "retry"

\* C18 as stated: a watchdog tick that finds the current connection open
\* and more than thirty seconds without a heartbeat closes that connection,
\* for the first connection and for every later one.
C18_WatchdogClosesSilentFeed == lastTick # "missed"

\* C19 as stated: the feed-connected flag of the status surface is true
\* exactly when the current connection is open.
C19_FlagMatchesConnection ==
  isConnected <=> (privateWs > 0 /\ sockets[privateWs] = "OPEN")

C39_EveryCallReturns ==
  /\ [](BagToSet(waiters) \subseteq WaiterRecords)
  /\ \A w \in WaiterRecords : \A k \in 1..MaxWaiters :
       (CopiesIn(w, waiters) >= k) ~> (CopiesIn(w, waiters) < k)

\* C39 witness: the window was full, MaxWaiters calls waited at the same
\* time, and all of them have returned.
C39_WaitingCallsReturned ==
  /\ waiters = EmptyBag
  /\ now >= period
  /\ Len(admitted) = maxRequests + MaxWaiters

\* C38: at most one feed connection is open or being opened, and a new
\* connection is created only when every earlier one has closed.
C38_OneConnection ==
  /\ Cardinality({s \in 1..Len(sockets) : sockets[s] # "CLOSED"}) <= 1
  /\ \A s \in 1..Len(sockets) : s < Len(sockets) => sockets[s] = "CLOSED"

\* C38 witness: a second connection is open after the first has closed.
C38_SecondConnectionOpen ==
  Len(sockets) >= 2 /\ sockets[Len(sockets)] = "OPEN"

\* C37: a subscription error whose message contains a permanent error
\* arms no resubscribe timer; any other subscription error arms one
\* resubscribe, 5 s later; and when that timer fires and a fresh token
\* was obtained, the subscribe goes out on the connection that is open.
C37_ResubscribeOnOpenConnection ==
  [][ /\ \A s \in 1..Len(sockets), m \in SubscriptionErrors :
           SubscriptionError(s, m) =>
             timers' = IF isPermanentError(m)
                       THEN timers
                       ELSE timers (+) One(Timer("resubscribe", resubscribeDelay))
      /\ ResubscribeTimerFires(TRUE) =>
           \A s \in 1..Len(sockets) : sockets[s] = "OPEN" => applied'.sentOn = s ]_vars

\* C36 as stated: the timer armed for the next reconnection attempt waits
\* min(baseReconnectDelay * 2^k, 60 s), k being the number of reconnection
\* attempts that failed in a row since a connection last opened.
C36_BackoffDoubles ==
  \A t \in BagToSet(timers) :
    t.kind \in {"reconnect", "retry"}
      => t.delay = Min(baseReconnectDelay * 2^failed, maxDelay)

\* ---------------------------------------------------------------------
\* Further properties of the engine
\* ---------------------------------------------------------------------

\* C21: the feed is started only after the cold pass has finished: once
\* startServices has gone on to start the feed, no processBalance call of
\* the cold pass is still waiting for the exchange.
C21_ColdPassBeforeFeed ==
  phase = "feed" => \A p \in BagToSet(procs) : p.h # "cold"

\* C21 case: the cold pass submitted an order, the exchange accepted it,
\* and only then was the feed started; no feed message has arrived yet.
C21_FeedAfterColdSale ==
  /\ phase = "feed"
  /\ lastEv.kind = "cold"
  /\ lastEv.started = 1
  /\ monitors # EmptyBag


\* C24: for an asset that is not the target fiat and has a pair, the cold
\* pass and the partial-fill timer start a sell exactly when the amount is
\* at least the minimum order size; and a sell whose live balance equals
\* the amount goes on to submit that amount.
C24_SoldIffAtLeastMinimum ==
  [][ /\ \A o \in EntryOrders(BalancesAs("native")) :
           ProcessAllBalances(o) =>
             \A a \in Assets \ FiatCodes :
               hasMarketPair(a) =>
                 ( (\E p \in BagToSet(procs') : p.asset = a /\ p.amt = acct[a])
                   <=> acct[a] >= getMinimumOrderSize(a) )
      /\ \A f \in BagToSet(followups) :
           (FollowUp(f) /\ hasMarketPair(f.asset) /\ f.asset \notin FiatCodes) =>
             ( procs' # procs <=> f.amt >= getMinimumOrderSize(f.asset) )
      /\ \A p \in BagToSet(procs) :
           (CheckBalanceReply(p) /\ totalBalance(BalancesAs("native"), p.asset) = p.amt)
             => BagIn(Submitting(p, p.amt), procs') ]_vars

\* C24 case: the cold pass found exactly the minimum order size (taken
\* from the pair catalog), the live balance is the same, and the order for
\* that amount is on the wire.
C24_ExactlyMinimumSubmitted ==
  \E p \in BagToSet(procs) :
    /\ p.h = "cold"
    /\ p.pc = "submit"
    /\ p.asset \in DOMAIN minimumOrderSizes
    /\ p.amt = getMinimumOrderSize(p.asset)
    /\ acct[p.asset] = p.amt

\* C27 as stated: when the handler of a feed update for one asset stores
\* its map (the map of an update has the one key), the status surface shows
\* for every other asset the balance it showed before.
C27_UpdateKeepsOtherAssets ==
  [][ \A code \in Assets :
        (currentBalances' # currentBalances /\ DOMAIN currentBalances' = {code})
          => \A b \in Assets \ {convertAssetName(code)} :
               statusBalance(b)' = statusBalance(b) ]_vars

\* C28 as stated: when the handler of an update for an asset finishes and
\* no handler of an update is left suspended, the update delivered last
\* being one for the same asset, the balance reported for the asset is the
\* one the update delivered last carried (the balance of the account, which
\* only the delivered changes move).
C28_ArrivalOrder ==
  [][ \A p \in BagToSet(procs) :
        ( /\ p.h = "update"
          /\ procs' = procs (-) One(p)
          /\ currentBalances' = p.bal
          /\ lastEv.kind \in UpdateTypes
          /\ lastEv.asset = p.asset
          /\ \A q \in BagToSet(procs') : q.h # "update" )
        => statusBalance(p.asset)' = acct'[p.asset] ]_vars

\* C29 as stated: a call chain goes from its live balance check to the
\* submission of an order only when the balance fetched is at least the
\* minimum order size, and the volume it submits is the lesser of the
\* amount asked for and that balance; with no balance fetched nothing is
\* submitted.
C29_SubmittedAfterLiveCheck ==
  [][ \A p \in BagToSet(procs) : \A volume \in Amounts :
        ( /\ p.pc = "check"
          /\ procs' = (procs (-) One(p)) (+) One(Submitting(p, volume)) )
        => LET live == totalBalance(BalancesAs("native"), p.asset)
           IN /\ live >= getMinimumOrderSize(p.asset)
              /\ volume = Min(p.amt, live) ]_vars

\* C34 as stated: after the exchange rejected an AddOrder request with a
\* business rejection, the call chain has no AddOrder request on the wire
\* any more: the dispatch is over.
C34_RejectionEndsDispatch ==
  [][ \A p \in BagToSet(procs) :
        AddOrderReply(p, "rejected") =>
          \A q \in BagToSet(OnTheWire(procs')) :
            ~(q.h = p.h /\ q.asset = p.asset /\ q.amt = p.amt /\ q.attempt > p.attempt) ]_vars

\* ---------------------------------------------------------------------
\* Pair resolution (KrakenService.hasMarketPair / getMarketPair)
\* ---------------------------------------------------------------------

\* Pairs an AssetPairs reply can hold, as the exchange names them.
PairPool ==
  [ XETHZUSD |-> [base |-> "XETH", quote |-> "ZUSD", ordermin |-> 1],
    XETHZEUR |-> [base |-> "XETH", quote |-> "ZEUR", ordermin |-> 1],
    XXBTZUSD |-> [base |-> "XXBT", quote |-> "ZUSD", ordermin |-> 1],
    SOLUSD   |-> [base |-> "SOL",  quote |-> "ZUSD", ordermin |-> 1],
    SOLEUR   |-> [base |-> "SOL",  quote |-> "ZEUR", ordermin |-> 1] ]

\* The assets asked about and the target fiats configured.
PairAssets == {"ETH", "BTC", "SOL", "USD", "EUR"}
PairFiats == {"USD", "EUR"}

\* The service with a target fiat configured and a catalog loaded.
InitPairs ==
  /\ targetFiat \in PairFiats
  /\ \E names \in SUBSET DOMAIN PairPool : pairs = [n \in names |-> PairPool[n]]
  /\ minimumOrderSizes = StoredMinimums(pairs, targetFiat)
  /\ currentBalances = EmptyMap
  /\ initialProcessingComplete = FALSE
  /\ isProcessingSnapshot = FALSE
  /\ phase = "init"
  /\ procs = EmptyBag
  /\ monitors = EmptyBag
  /\ followups = EmptyBag
  /\ acct = [a \in Assets |-> 0]
  /\ events = 0
  /\ lastEv = NoEvent
  /\ OtherIdle

\* processBalance asks whether the asset has a market, and for its pair.
ResolvePair(asset) ==
  /\ applied' = [fn |-> "getMarketPair", asset |-> asset,
                 has |-> hasMarketPair(asset), pair |-> getMarketPair(asset)]
  /\ UNCHANGED <<engine, now, nonces, limiter, restApi, feed>>

NextPairs == \E asset \in PairAssets : ResolvePair(asset)

SpecPairs == InitPairs /\ [][NextPairs]_vars

\* The pairs of the catalog that sell the asset for the target fiat.
SellingPairs(asset) ==
  {n \in DOMAIN pairs : /\ pairs[n].base = getOriginalAssetName(asset)
                        /\ pairs[n].quote = getOriginalAssetName(targetFiat)}

\* C22 as stated: the pair resolved for an asset has the native code of the
\* asset as base and the native code of the target fiat as quote; when the
\* catalog has no such pair, none is resolved.
C22_PairMatchesAssetAndFiat ==
  applied.fn = "getMarketPair" =>
    IF applied.asset = targetFiat \/ SellingPairs(applied.asset) = {}
    THEN ~applied.has /\ applied.pair = "null"
    ELSE applied.has /\ applied.pair \in SellingPairs(applied.asset)

\* ---------------------------------------------------------------------
\* Asset code conversions
\* ---------------------------------------------------------------------

\* The standard codes getOriginalAssetName has an entry for.
StandardCodes ==
  {"ETH", "BTC", "DOGE", "USD", "USDT", "USDC", "EUR", "GBP", "CAD", "AUD",
   "JPY", "CHF", "XRP", "XLM", "XMR", "LTC", "ETC", "REP", "MLN", "ZEC"}

\* The two functions that turn a native code into a standard one:
\* convertAssetName (helpers, used by the engine on every balance message)
\* and getStandardAssetName (KrakenService), with the native codes each has
\* an entry for.
Standardizers == {"convertAssetName", "getStandardAssetName"}

NativeCodes(via) ==
  IF via = "convertAssetName"
  THEN {"XETH", "XXBT", "XXDG", "ZUSD", "ZUSDT", "ZUSDC"}
  ELSE {"XXDG", "XXBT", "XETH", "ZUSD", "ZEUR", "ZGBP", "ZCAD", "ZAUD", "ZJPY",
        "XXRP", "XXLM", "XXMR", "XLTC", "XETC", "XREP", "XMLN", "XZEC"}

standardize(via, code) ==
  IF via = "convertAssetName" THEN convertAssetName(code)
  ELSE getStandardAssetName(code)

\* One conversion is applied to a code.
Convert(via, code) ==
  /\ applied' = [fn |-> via, arg |-> code,
                 value |-> IF via = "getOriginalAssetName"
                           THEN getOriginalAssetName(code)
                           ELSE standardize(via, code)]
  /\ UNCHANGED <<engine, now, nonces, limiter, restApi, feed>>

\* A standard code is made native (hasMarketPair, checkBalanceForAsset) and
\* standard again.
StandardizeNativized(via, x) ==
  /\ applied' = [fn |-> "standardize(nativize)", via |-> via, arg |-> x,
                 value |-> standardize(via, getOriginalAssetName(x))]
  /\ UNCHANGED <<engine, now, nonces, limiter, restApi, feed>>

\* A native code is made standard (processBalanceChange, fetchTradablePairs)
\* and native again (hasMarketPair, checkBalanceForAsset).
NativizeStandardized(via, y) ==
  /\ applied' = [fn |-> "nativize(standardize)", via |-> via, arg |-> y,
                 value |-> getOriginalAssetName(standardize(via, y))]
  /\ UNCHANGED <<engine, now, nonces, limiter, restApi, feed>>

InitCodes == EngineIdle /\ OtherIdle

NextCodes ==
  \/ \E via \in Standardizers \cup {"getOriginalAssetName"} :
       \E code \in StandardCodes \cup NativeCodes("convertAssetName")
                     \cup NativeCodes("getStandardAssetName") : Convert(via, code)
  \/ \E via \in Standardizers : \E x \in StandardCodes : StandardizeNativized(via, x)
  \/ \E via \in Standardizers : \E y \in NativeCodes(via) : NativizeStandardized(via, y)

SpecCodes == InitCodes /\ [][NextCodes]_vars

\* C23 as stated: making a recognized standard code native and standard
\* again gives the code back, and so does making a recognized native code
\* standard and native again.
C23_ConversionsRoundTrip ==
  applied.fn \in {"standardize(nativize)", "nativize(standardize)"}
    => applied.value = applied.arg

\* ---------------------------------------------------------------------
\* Batch order lookup (POST /trades/batch)
\* ---------------------------------------------------------------------

\* An error message, as the pieces of its text that the handlers search
\* for ('Transaction ID', 'Invalid', 'array', with their capitals) and the
\* text in between.
NoError == <<>>

\* A transaction id of the request body: whether it is a string, whether
\* it has only letters, digits and hyphens, and its length.
Txid(k) == [id |-> k, string |-> TRUE, clean |-> TRUE, len |-> 19]

Malformed ==
  { [Txid(1) EXCEPT !.string = FALSE], [Txid(1) EXCEPT !.clean = FALSE],
    [Txid(1) EXCEPT !.len = 9], [Txid(1) EXCEPT !.len = 51] }

validateTxid(txid) ==
  IF ~txid.string
  THEN <<"Transaction ID", " is required and must be a string">>
  ELSE IF ~txid.clean
  THEN <<"Invalid", " transaction ID format (only letters, numbers, and hyphens allowed)">>
  ELSE IF txid.len > 50 \/ txid.len < 10
  THEN <<"Transaction ID", " length is invalid (must be between 10 and 50 characters)">>
  ELSE NoError

\* The error validateTxidArray throws for req.body.txids, NoError when it
\* returns the list.
validateTxidArray(txids) ==
  IF ~txids.isArray
  THEN <<"Transaction ID", "s must be provided as an ", "array">>
  ELSE IF Len(txids.list) = 0
  THEN <<"Transaction ID", "s ", "array", " cannot be empty">>
  ELSE IF Len(txids.list) > maxBatchTxids
  THEN <<"Maximum 20 transaction IDs per request">>
  ELSE LET bad == {i \in DOMAIN txids.list : validateTxid(txids.list[i]) # NoError}
       IN IF bad = {} THEN NoError
          ELSE LET i == CHOOSE j \in bad : \A k \in bad : j <= k
               IN <<"Invalid", " transaction ID at index i: ">> \o validateTxid(txids.list[i])

\* The status of the catch block of getBatchTrades for a thrown error.
BatchErrorStatus(message) ==
  IF includes(message, "Transaction ID") \/ includes(message, "Invalid")
     \/ includes(message, "array")
  THEN 400 ELSE 500

\* The lists of the requests: n distinct well-formed ids, a list with one
\* malformed id, and a list that names an id twice.
GoodList(n) == [i \in 1..n |-> Txid(i)]

Bodies ==
  {[isArray |-> FALSE, list |-> <<>>]}
    \cup {[isArray |-> TRUE, list |-> GoodList(n)] : n \in 0..MaxBatch}
    \cup {[isArray |-> TRUE, list |-> <<Txid(2), m>>] : m \in Malformed}
    \cup {[isArray |-> TRUE, list |-> <<Txid(1), Txid(2), Txid(1)>>]}

\* results[txid] = entry
Store(results, id, entry) ==
  {r \in results : r.id # id} \cup {[id |-> id, entry |-> entry]}

\* What the lookup of one id ends with: formatted data, the entry
\* 'Order not found', or an error thrown by QueryOrders or QueryTrades.
LookupOutcomes == {"data", "notFound", "throws"}

\* getBatchTrades up to its first await: the body is validated; a thrown
\* error is answered by the catch block, otherwise QueryOrders is sent for
\* the first id.
GetBatchTrades(body) ==
  /\ applied = Nothing
  /\ LET error == validateTxidArray(body)
     IN applied' =
          [fn |-> "getBatchTrades", body |-> body, results |-> {},
           failures |-> 0,
           pc |-> IF error = NoError THEN "lookup" ELSE "done",
           i |-> IF error = NoError THEN 1 ELSE 0,
           queries |-> IF error = NoError THEN 1 ELSE 0,
           status |-> IF error = NoError THEN 0 ELSE BatchErrorStatus(error)]
  /\ UNCHANGED <<engine, now, nonces, limiter, restApi, feed>>

\* The lookup of the current id ends: its entry is stored; QueryOrders is
\* sent for the next id, or the results are sent after the last one.
LookupReply(outcome) ==
  /\ applied.fn = "getBatchTrades"
  /\ applied.pc = "lookup"
  /\ outcome # "data" => applied.failures < MaxLookupFailures
  /\ LET list == applied.body.list
         last == applied.i = Len(list)
     IN applied' =
          [applied EXCEPT
             !.results = Store(@, list[applied.i].id,
                               IF outcome = "data" THEN "data" ELSE "error"),
             !.failures = IF outcome = "data" THEN @ ELSE @ + 1,
             !.pc = IF last THEN "done" ELSE "lookup",
             !.i = IF last THEN @ ELSE @ + 1,
             !.queries = IF last THEN @ ELSE @ + 1,
             !.status = IF last THEN 200 ELSE @]
  /\ UNCHANGED <<engine, now, nonces, limiter, restApi, feed>>

InitBatch == EngineIdle /\ OtherIdle

NextBatch ==
  \/ \E body \in Bodies : GetBatchTrades(body)
  \/ \E outcome \in LookupOutcomes : LookupReply(outcome)

SpecBatch == InitBatch /\ [][NextBatch]_vars

\* C25 as stated: a batch request whose txids list is missing, empty or
\* longer than 20 is answered with status 400 and no order query is sent;
\* a list of 1 to 20 well-formed ids is answered with one entry per id,
\* whatever the lookups of the other ids ended with.
C25_BatchValidatedBestEffort ==
  (applied.fn = "getBatchTrades" /\ applied.pc = "done") =>
    LET txids == applied.body
        ids == {txids.list[i].id : i \in DOMAIN txids.list}
    IN /\ (~txids.isArray \/ Len(txids.list) = 0 \/ Len(txids.list) > 20)
            => (applied.status = 400 /\ applied.queries = 0)
       /\ ( /\ txids.isArray
            /\ Len(txids.list) \in 1..20
            /\ \A i \in DOMAIN txids.list : validateTxid(txids.list[i]) = NoError )
            => /\ applied.status = 200
               /\ {r.id : r \in applied.results} = ids
               /\ Cardinality(applied.results) = Cardinality(ids)

\* ---------------------------------------------------------------------
\* The status surface (routes/index.js)
\* ---------------------------------------------------------------------

\* The routes whose handlers only read: the status, the balance map, one
\* balance, the pairs of an asset, the state of the rate limiter, and the
\* two order lookups, which call kraken.api without the rate limiter.
ReadingRoutes ==
  {"GET /auto-sell/status", "GET /auto-sell/balances", "GET /balance/:asset",
   "GET /debug/pairs/:asset", "GET /debug/rate-limiter",
   "GET /trades/:txid", "POST /trades/batch"}

\* RateLimiter.getStatus
getStatus ==
  [totalRequests |-> Len(requests),
   activeRequests |-> Len(Cleanup(requests, now - period)),
   lastCleanup |-> lastCleanup]

\* What a reading handler takes from the engine for its answer.
Answer(route, asset) ==
  IF route = "GET /auto-sell/status"
  THEN [initialProcessingComplete |-> initialProcessingComplete,
        currentBalances |-> currentBalances, connected |-> isConnected]
  ELSE IF route = "GET /auto-sell/balances" THEN [balances |-> currentBalances]
  ELSE IF route = "GET /balance/:asset"
  THEN [found |-> asset \in DOMAIN currentBalances, balance |-> reported(asset)]
  ELSE IF route = "GET /debug/pairs/:asset"
  THEN [hasMarketPair |-> hasMarketPair(asset), totalPairs |-> Cardinality(DOMAIN pairs)]
  ELSE IF route = "GET /debug/rate-limiter" THEN [rateLimiter |-> getStatus]
  ELSE [txid |-> "sent to kraken.api"]

ReadingRequest(route, asset) ==
  /\ applied' = [fn |-> route, asset |-> asset, answer |-> Answer(route, asset)]
  /\ applied' # applied
  /\ UNCHANGED <<engine, now, nonces, limiter, restApi, feed>>

\* GET /debug/balance/:asset, up to the await in checkBalanceForAsset:
\* rateLimiter.waitForSlot() is called as for a request of the engine.
DebugBalanceRequest(asset) ==
  /\ applied' = [fn |-> "GET /debug/balance/:asset", asset |-> asset,
                 admissions |-> Len(admitted)]
  /\ WaitForSlot
  /\ UNCHANGED <<restApi, feed>>

StatusRequest ==
  \/ \E route \in ReadingRoutes : \E asset \in Assets \cup {"XETH", "ZUSD"} :
       ReadingRequest(route, asset)
  \/ \E asset \in Assets : DebugBalanceRequest(asset)

\* The engine as the surface finds it: before the cold pass has stored
\* anything, or after it stored the balances of the account, with the feed
\* not yet started.
InitStatus ==
  /\ targetFiat = "USD"
  /\ pairs \in Catalogs
  /\ minimumOrderSizes = StoredMinimums(pairs, targetFiat)
  /\ acct = [a \in Assets |-> MaxAmt]
  /\ \/ initialProcessingComplete = FALSE /\ currentBalances = EmptyMap
     \/ initialProcessingComplete = TRUE /\ currentBalances = BalancesAs("native")
  /\ isProcessingSnapshot = FALSE
  /\ phase = "feed"
  /\ procs = EmptyBag
  /\ monitors = EmptyBag
  /\ followups = EmptyBag
  /\ events = 0
  /\ lastEv = NoEvent
  /\ OtherIdle

NextStatus ==
  \/ StatusRequest
  \/ Elapse
  \/ \E w \in BagToSet(waiters) : WaitForSlotResumes(w)

SpecStatus == InitStatus /\ [][NextStatus]_vars

\* C26 as stated: a request of the status surface leaves the reported
\* balance map, the initial-processing flag, the feed connection, the pair
\* catalog and the state of the rate limiter as they were.
C26_StatusSurfaceReadsOnly ==
  [][StatusRequest =>
       UNCHANGED <<currentBalances, initialProcessingComplete, sockets,
                   wsInstance, pairs, minimumOrderSizes, limiter>>]_vars

\* ---------------------------------------------------------------------
\* The live balance check (KrakenService.checkBalanceForAsset)
\* ---------------------------------------------------------------------

\* Assets processBalance asks the live balance of, by the standard name it
\* is called with: two the exchange reports under a native code of its
\* own (XETH, XXBT) and three it reports under the standard code itself.
LiveAssets == {"ETH", "BTC", "SOL", "USDT", "ADA"}

\* The result of the Balance request: an amount under the code the
\* exchange reports each asset by.
BalanceReplies == [{getOriginalAssetName(a) : a \in LiveAssets} -> Amounts]

\* processBalance from the live check to the amount it goes on with:
\* checkBalanceForAsset sums the reply over the two names of the asset and
\* the lesser of the amount asked for and the sum is taken.  One call is
\* followed from the state nothing was called in.
CheckBalanceForAsset(asset, totalAmount, balance) ==
  /\ applied = Nothing
  /\ applied' = [fn |-> "checkBalanceForAsset", asset |-> asset,
                 requested |-> totalAmount, balance |-> balance,
                 totalBalance |-> totalBalance(balance, asset),
                 availableAmount |-> Min(totalAmount, totalBalance(balance, asset))]
  /\ UNCHANGED <<engine, now, nonces, limiter, restApi, feed>>

InitLive == EngineIdle /\ OtherIdle

NextLive ==
  \E asset \in LiveAssets : \E totalAmount \in Amounts \ {0} :
    \E balance \in BalanceReplies : CheckBalanceForAsset(asset, totalAmount, balance)

SpecLive == InitLive /\ [][NextLive]_vars

\* C30 as stated: the live balance obtained for an asset is never above
\* the amount the exchange reports for the asset, whether its native code
\* differs from its standard code or not.
C30_LiveBalanceWithinReported ==
  applied.fn = "checkBalanceForAsset"
    => applied.totalBalance <= applied.balance[getOriginalAssetName(applied.asset)]

\* ---------------------------------------------------------------------
\* The gates of processBalance, one call followed to its order or its
\* reason
\* ---------------------------------------------------------------------

\* What checkBalanceForAsset gives processBalance: a total, or null when
\* the Balance request failed.
LiveReplies ==
  {[null |-> TRUE, totalBalance |-> 0]}
    \cup {[null |-> FALSE, totalBalance |-> v] : v \in Amounts}

\* processBalance from its entry to the order or to the reason it returns
\* false with.  The live balance is fetched only behind the three gates
\* decided locally; when the fetch gives null the catch block goes on with
\* the amount asked for.
ProcessBalanceGates(asset, totalAmount, live) ==
  LET gate == GateResult(asset, totalAmount)
      availableAmount == IF live.null THEN totalAmount
                         ELSE Min(totalAmount, live.totalBalance)
      short == availableAmount < getMinimumOrderSize(asset)
  IN /\ applied = Nothing
     /\ applied' = [fn |-> "processBalance", asset |-> asset,
                    totalAmount |-> totalAmount, live |-> live,
                    fetched |-> gate = "pass",
                    reason |-> IF gate # "pass" THEN gate
                               ELSE IF short THEN "insufficient_available_balance"
                               ELSE "pass",
                    ordered |-> gate = "pass" /\ ~short]
     /\ UNCHANGED <<engine, now, nonces, limiter, restApi, feed>>

NextGates ==
  \E asset \in PairAssets : \E totalAmount \in Amounts : \E live \in LiveReplies :
    ProcessBalanceGates(asset, totalAmount, live)

SpecGates == InitPairs /\ [][NextGates]_vars

\* The gates one by one, as processBalance tests them.
IsTargetFiat(asset) == asset = targetFiat \/ asset = convertAssetName(targetFiat)
BelowMinimum(asset, amount) == amount < getMinimumOrderSize(asset)

\* C31: the reason a call of processBalance ends with is that of the first
\* gate that fails in the order target fiat, market pair, minimum size,
\* live balance; a call that ends with a reason places no order; and the
\* live balance is fetched exactly when the first three gates have passed.
C31_GatesInOrder ==
  applied.fn = "processBalance" =>
    LET a == applied.asset
        fiat == IsTargetFiat(a)
        market == hasMarketPair(a)
        small == BelowMinimum(a, applied.totalAmount)
    IN /\ fiat => applied.reason = "target_currency"
       /\ (~fiat /\ ~market) => applied.reason = "no_market"
       /\ (~fiat /\ market /\ small) => applied.reason = "below_minimum_order"
       /\ (~fiat /\ market /\ ~small /\ ~applied.live.null
             /\ BelowMinimum(a, Min(applied.totalAmount, applied.live.totalBalance)))
            => applied.reason = "insufficient_available_balance"
       /\ applied.reason # "pass" => ~applied.ordered
       /\ applied.fetched <=> (~fiat /\ market /\ ~small)

\* C31 case: an asset with no market and an amount below its minimum size
\* ended with the reason of the market gate, the live balance not fetched.
C31_TwoGatesFail ==
  /\ applied.fn = "processBalance"
  /\ ~IsTargetFiat(applied.asset)
  /\ ~hasMarketPair(applied.asset)
  /\ BelowMinimum(applied.asset, applied.totalAmount)
  /\ applied.reason = "no_market"
  /\ ~applied.fetched

\* ---------------------------------------------------------------------
\* The retry wrapper (helpers.withRetry), one call followed to its end
\* ---------------------------------------------------------------------

\* What one invocation of the operation rejects with.  "HTTP4xx" and
\* "rejected" (a business rejection of the exchange) are not retryable.
RetryErrors ==
  {"ECONNRESET", "ETIMEDOUT", "ECONNREFUSED", "HTTP5xx", "Invalid nonce",
   "HTTP4xx", "rejected"}

\* Faulty variant: the loop does not notice its last attempt until one
\* invocation too late.
isLastAttemptLate(attempt, maxAttempts) == attempt = maxAttempts + 1

isLastAttempt(attempt, maxAttempts) == attempt = maxAttempts

\* setTimeout(resolve, config.kraken.retryDelay * attempt)
retryWait(attempt) == retryDelay * attempt

\* withRetry is called: the loop starts and the operation is invoked.
\*   attempt   the loop variable;  errors  what the invocations so far
\*   rejected with;  waits  the delays of the timers armed so far
WithRetry(maxAttempts) ==
  /\ applied = Nothing
  /\ applied' = [fn |-> "withRetry", maxAttempts |-> maxAttempts,
                 attempt |-> 1, invocations |-> 1, pc |-> "invoking",
                 errors |-> <<>>, waits |-> <<>>, thrown |-> "none"]
  /\ UNCHANGED <<engine, now, nonces, limiter, restApi, feed>>

\* The operation resolves (withRetry returns its result) or rejects
\* (withRetry throws the error, or arms the backoff timer).
OperationSettles(outcome) ==
  /\ applied.fn = "withRetry"
  /\ applied.pc = "invoking"
  /\ applied' =
       IF outcome = "ok" THEN [applied EXCEPT !.pc = "returned"]
       ELSE IF \/ isLastAttempt(applied.attempt, applied.maxAttempts)
               \/ ~isRetryableError(outcome)
       THEN [applied EXCEPT !.pc = "thrown", !.thrown = outcome,
                            !.errors = Append(@, outcome)]
       ELSE [applied EXCEPT !.pc = "waiting", !.errors = Append(@, outcome),
                            !.waits = Append(@, retryWait(applied.attempt))]
  /\ UNCHANGED <<engine, now, nonces, limiter, restApi, feed>>

\* The backoff timer fires: the loop goes round and invokes the operation.
BackoffTimerFires ==
  /\ applied.fn = "withRetry"
  /\ applied.pc = "waiting"
  /\ applied' = [applied EXCEPT !.pc = "invoking", !.attempt = @ + 1,
                                !.invocations = @ + 1]
  /\ UNCHANGED <<engine, now, nonces, limiter, restApi, feed>>

Settles == \E outcome \in {"ok"} \cup RetryErrors : OperationSettles(outcome)

InitRetry == EngineIdle /\ OtherIdle

NextRetry ==
  \/ \E maxAttempts \in 1..MaxAttempts : WithRetry(maxAttempts)
  \/ Settles
  \/ BackoffTimerFires

\* The promise of every invocation settles and every timer armed fires.
SpecRetry ==
  InitRetry /\ [][NextRetry]_vars /\ WF_vars(Settles) /\ WF_vars(BackoffTimerFires)

RetryEnded == applied.fn = "withRetry" /\ applied.pc \in {"returned", "thrown"}

\* The safety part of C32.
RetryBounded ==
  applied.fn = "withRetry" =>
    /\ applied.invocations <= applied.maxAttempts
    /\ applied.pc = "returned" => applied.invocations = Len(applied.errors) + 1
    /\ applied.pc = "thrown" =>
         /\ applied.invocations = Len(applied.errors)
         /\ applied.thrown = applied.errors[Len(applied.errors)]
    /\ \A k \in DOMAIN applied.waits : applied.waits[k] = k * retryDelay

C33_NonRetryableThrownAtOnce ==
  applied.fn = "withRetry" =>
    \A i \in DOMAIN applied.errors :
      applied.errors[i] \notin {"ECONNRESET", "ETIMEDOUT", "ECONNREFUSED",
                                "HTTP5xx", "Invalid nonce"}
        => /\ i = Len(applied.errors)
           /\ applied.pc = "thrown"
           /\ applied.thrown = applied.errors[i]
           /\ applied.invocations = i

\* C33 case: with three attempts allowed the first invocation was rejected
\* by the exchange, and the rejection was thrown.
C33_RejectedOnFirstAttempt ==
  /\ applied.fn = "withRetry"
  /\ applied.maxAttempts = retryAttempts
  /\ applied.errors = <<"rejected">>
  /\ applied.thrown = "rejected"
  /\ applied.invocations = 1

\* ---------------------------------------------------------------------
\* The order loop of processBalance with its backoff as a state of its own
\* ---------------------------------------------------------------------

\* placeMarketSellOrder threw (withRetry gave up, or the error was not
\* retryable): the loop of processBalance arms its backoff timer of
\* 2000 * attempt ms while attempts are left, and returns false otherwise.
PlaceOrderThrows(p, error) ==
  /\ BagIn(p, procs)
  /\ p.pc = "submit"
  /\ IF p.attempt < maxRetries
     THEN /\ procs' = (procs (-) One(p)) (+) One([p EXCEPT !.pc = "backoff"])
          /\ UNCHANGED <<currentBalances, initialProcessingComplete, phase>>
     ELSE Return(p)
  /\ UNCHANGED <<cfg, other, isProcessingSnapshot, monitors, followups, acct,
                 events, lastEv>>

\* The backoff timer fires: the loop goes round and placeMarketSellOrder
\* is called again.
BackoffEnds(p) ==
  /\ BagIn(p, procs)
  /\ p.pc = "backoff"
  /\ procs' = (procs (-) One(p)) (+)
              One([p EXCEPT !.pc = "submit", !.attempt = @ + 1, !.inner = 1])
  /\ UNCHANGED <<cfg, other, currentBalances, initialProcessingComplete,
                 isProcessingSnapshot, phase, monitors, followups, acct,
                 events, lastEv>>

\* The engine after a cold pass over an empty account, the catalog loaded
\* and the feed started.
InitBackoff ==
  /\ targetFiat = "USD"
  /\ pairs \in Catalogs \ {NoPairs}
  /\ minimumOrderSizes = StoredMinimums(pairs, targetFiat)
  /\ acct = [a \in Assets |-> 0]
  /\ currentBalances = BalancesAs("native")
  /\ initialProcessingComplete = TRUE
  /\ isProcessingSnapshot = TRUE
  /\ phase = "feed"
  /\ procs = EmptyBag
  /\ monitors = EmptyBag
  /\ followups = EmptyBag
  /\ events = 0
  /\ lastEv = [NoEvent EXCEPT !.kind = "cold"]
  /\ OtherIdle

NextBackoff ==
  \/ \E a \in Assets, t \in UpdateTypes, d \in (0 - MaxAmt)..MaxAmt :
       BalanceChange(a, t, d)
  \/ \E p \in BagToSet(procs) : CheckBalanceReply(p)
  \/ \E p \in BagToSet(procs) : CheckBalanceFails(p)
  \/ \E p \in BagToSet(procs) : AddOrderReply(p, "ok")
  \/ \E p \in BagToSet(procs) : \E o \in Outcomes \ {"ok"} : PlaceOrderThrows(p, o)
  \/ \E p \in BagToSet(procs) : BackoffEnds(p)
  \/ \E m \in BagToSet(monitors) : \E s \in {"closed", "open"}, v \in Amounts :
       OrderStatusReply(m, s, v)
  \/ \E m \in BagToSet(monitors) : OrderStatusNull(m)
  \/ \E f \in BagToSet(followups) : FollowUp(f)

SpecBackoff == InitBackoff /\ [][NextBackoff]_vars

\* C35 as stated: when the feed delivers an update with the new total 0
\* for an asset, no call chain for that asset is left waiting in a retry
\* backoff: the backoff is cancelled.
C35_ZeroCancelsBackoff ==
  [][ \A a \in Assets, t \in UpdateTypes, d \in (0 - MaxAmt)..MaxAmt :
        (BalanceChange(a, t, d) /\ acct'[a] = 0)
          => \A p \in BagToSet(procs') : ~(p.asset = a /\ p.pc = "backoff") ]_vars

\* ---------------------------------------------------------------------
\* The external log sink
\* ---------------------------------------------------------------------

\* The two programs of the repository that sell: the services
\* (autoSellService.processBalance) and the core module kraken-auto-sell
\* that kraken-service.js and kraken-balances.js require (processBalance,
\* called for each asset by processAllBalances).
Programs == {"autoSellService", "kraken-auto-sell"}

\* What axios.post to the log endpoint can end with; sendLogToApi logs the
\* error and throws it again.
SinkOutcomes == Outcomes \cup {"HTTP5xx"}

\* The loop over the balances reaches an asset that passes every gate:
\* the order is sent.
\*   enabled   logging.api.enabled;  rest  assets the loop has still to do
\*   accepted  AddOrder calls for this asset that the exchange accepted
SaleBegins(program, enabled, rest) ==
  /\ applied = Nothing
  /\ applied' = [fn |-> "processBalance", program |-> program, enabled |-> enabled,
                 rest |-> rest, attempt |-> 1, accepted |-> 0, pc |-> "submit",
                 sinkFailed |-> FALSE]
  /\ UNCHANGED <<engine, now, nonces, limiter, restApi, feed>>

\* Where an error thrown inside the retried part leads: the services'
\* loop backs off after any error while attempts remain and returns false
\* after the last; the core module's withRetry backs off after a retryable
\* error while attempts remain and otherwise throws into the catch block
\* of processBalance, which reports order_failed to the sink.
AfterError(error) ==
  IF applied.program = "autoSellService"
  THEN IF applied.attempt < maxRetries THEN "backoff" ELSE "done"
  ELSE IF applied.attempt < retryAttempts /\ isRetryableError(error)
       THEN "backoff"
       ELSE IF applied.enabled THEN "logError" ELSE "done"

\* AddOrder answers.  Accepted: the sale is reported to the sink, if
\* logging is enabled.
OrderReplies(outcome) ==
  /\ applied.fn = "processBalance"
  /\ applied.pc = "submit"
  /\ applied' =
       IF outcome = "ok"
       THEN [applied EXCEPT !.accepted = @ + 1,
                            !.pc = IF applied.enabled THEN "log" ELSE "done"]
       ELSE [applied EXCEPT !.pc = AfterError(outcome)]
  /\ UNCHANGED <<engine, now, nonces, limiter, restApi, feed>>

\* sendLogToApi settles.  The services await it inside a try of its own;
\* the core module awaits it inside the operation given to withRetry
\* (pc = "log") and inside the catch block of processBalance
\* (pc = "logError"), from where the error leaves processBalance and ends
\* the loop of processAllBalances.
SinkReplies(outcome) ==
  /\ applied.fn = "processBalance"
  /\ applied.pc \in {"log", "logError"}
  /\ applied' =
       IF outcome = "ok" \/ applied.program = "autoSellService"
       THEN [applied EXCEPT !.pc = "done", !.sinkFailed = @ \/ outcome # "ok"]
       ELSE [applied EXCEPT !.sinkFailed = TRUE,
                            !.pc = IF applied.pc = "log"
                                   THEN AfterError(outcome)
                                   ELSE "aborted"]
  /\ UNCHANGED <<engine, now, nonces, limiter, restApi, feed>>

\* The backoff timer fires: the next attempt sends the order again.
SaleBackoffEnds ==
  /\ applied.fn = "processBalance"
  /\ applied.pc = "backoff"
  /\ applied' = [applied EXCEPT !.attempt = @ + 1, !.pc = "submit"]
  /\ UNCHANGED <<engine, now, nonces, limiter, restApi, feed>>

\* processBalance has returned: the loop goes on to its next asset.
NextAsset ==
  /\ applied.fn = "processBalance"
  /\ applied.pc = "done"
  /\ applied.rest > 0
  /\ applied' = [applied EXCEPT !.rest = @ - 1, !.attempt = 1, !.accepted = 0,
                                !.pc = "submit"]
  /\ UNCHANGED <<engine, now, nonces, limiter, restApi, feed>>

InitSink == EngineIdle /\ OtherIdle

NextSink ==
  \/ \E program \in Programs, enabled \in BOOLEAN, rest \in 0..MaxRemaining :
       SaleBegins(program, enabled, rest)
  \/ \E outcome \in Outcomes : OrderReplies(outcome)
  \/ \E outcome \in SinkOutcomes : SinkReplies(outcome)
  \/ SaleBackoffEnds
  \/ NextAsset

SpecSink == InitSink /\ [][NextSink]_vars

\* C40: a failure of the log sink never changes what is sold: no asset
\* has an order accepted more than once, and the loop over the assets is
\* never ended with assets still to do.
C40_SinkFailureChangesNoSale ==
  applied.fn = "processBalance" =>
    /\ applied.accepted <= 1
    /\ ~(applied.pc = "aborted" /\ applied.rest > 0)

====
